---- MODULE Spec2Model ----
(***************************************************************************)
(* JewelleryFlow: the work-log view (frontend/components/WorkLogView.tsx)  *)
(* with its session reconstruction, groupedSessions, and the calls of      *)
(* frontend/services/dataService.ts that read and change the backend.      *)
(*                                                                         *)
(* Encoding of the TypeScript values:                                      *)
(*   - a timestamp is the instant its ISO string denotes, in seconds;      *)
(*     NaN is the time value of a string that new Date cannot parse, and   *)
(*     the number NaN of the arithmetic done on it;                        *)
(*   - an event id is a positive number; 0 stands for an absent            *)
(*     relatedLogId (undefined, falsy);                                    *)
(*   - a photo url is a positive number; 0 is the empty string '';         *)
(*   - Null (-1) is the JavaScript null of endTime and endPhoto;           *)
(*   - filterDate is a day number; 0 is the empty string '' (no filter);   *)
(*   - the duration string is a record [kind, h, m]: kind "hm" is the      *)
(*     template `${h}h ${m}m`, the other kinds are the literal strings.    *)
(***************************************************************************)
EXTENDS Integers, Sequences, FiniteSets, TLC

VARIABLES tz, loading, dailyLogs, users, departments,
          filterDate, selectedStage, selectedWorker, groupedSessions,
          fetchData,
          db, calls, now,
          settled, feed, alerted, localStorage, sessionLog

\* The state of the work-log view.
viewVars == <<tz, loading, dailyLogs, users, departments,
              filterDate, selectedStage, selectedWorker, groupedSessions,
              fetchData>>

\* The backend's collections, the dataService calls in flight and the clock.
storeVars == <<db, calls, now>>

\* The browser's localStorage and the session calls made so far.
sessionVars == <<localStorage, sessionLog>>

\* The last getter call of dataService with its outcome, the state of the
\* daily photo feed, the last handler of the admin views with what it
\* alerted, and the session.
appVars == <<settled, feed, alerted, sessionVars>>

vars == <<viewVars, storeVars, appVars>>

----------------------------------------------------------------------------
(* Bounds and the finite universe the inputs are drawn from.               *)

MaxEvents == 3

\* The largest daily-log response of the view with all its selectors.
MaxFewEvents == 2

DaySeconds == 24 * 60 * 60

\* Three instants of day 1 (UTC): 09:00:00, 09:30:00 and 20:31:30.
\* In India 20:31:30 UTC is 02:01:30 of day 2.
T1 == DaySeconds + (9 * 3600)
T2 == T1 + (30 * 60)
T3 == DaySeconds + (20 * 3600) + (31 * 60) + 30
Times == {T1, T2, T3}

\* The browser's offset from UTC in seconds: New York (-05:00), India (+05:30).
TzOffsets == {-18000, 19800}

FilterDays == {1, 2}

WorkerNames == {"Asha", "Ben"}

Null == -1

\* new Date(s).getTime() of a string s that is no date: NaN. It lies outside
\* every instant, difference of instants and hour or minute count.
NaN == -(10 * DaySeconds)

NoDuration == [kind |-> "--", h |-> 0, m |-> 0]

----------------------------------------------------------------------------
(* JavaScript and date-fns primitives.                                     *)

\* Math.floor(a / 60) on an integer a.
MathFloorDiv60(a) == IF a = NaN THEN NaN ELSE a \div 60

\* a % 60: the remainder takes the sign of the dividend.
JsRem60(a) == IF a = NaN THEN NaN ELSE IF a >= 0 THEN a % 60 ELSE -((-a) % 60)

\* Mutant of differenceInMinutes: rounds to the nearest minute.
differenceInMinutes_Rounded(end, start) ==
  LET d == end - start
  IN  IF d >= 0 THEN (d + 30) \div 60 ELSE -((30 - d) \div 60)

\* differenceInMinutes(end, start): the difference truncated toward zero.
\* NaN when one of the dates is invalid.
differenceInMinutes(end, start) ==
  LET d == end - start
  IN  IF end = NaN \/ start = NaN THEN NaN
      ELSE IF d >= 0 THEN d \div 60 ELSE -((-d) \div 60)

\* The local calendar day of an instant.
LocalDay(t, offset) == (t + offset) \div DaySeconds

\* new Date('yyyy-MM-dd'): a date-only string is midnight UTC of that day.
ParseDateOnly(day) == day * DaySeconds

\* isSameDay(a, b): equal local calendar days.
\* startOfDay of an invalid date is invalid, and NaN === NaN is false.
isSameDay(a, b, offset) ==
  a # NaN /\ b # NaN /\ LocalDay(a, offset) = LocalDay(b, offset)

\* getTime(a) - getTime(b) as Array.prototype.sort reads it: a comparator
\* value of NaN counts as +0.
timeCompare(a, b) == IF a = NaN \/ b = NaN THEN 0 ELSE a - b

\* a.localeCompare(b) < 0 on the worker names.
NameRank(n) == CASE n = "Asha" -> 1 [] n = "Ben" -> 2 [] OTHER -> 3

----------------------------------------------------------------------------
(* Array helpers.                                                          *)

\* array.sort((a, b) => getTime(a.timestamp) - getTime(b.timestamp)):
\* ascending by timestamp; Array.prototype.sort is stable. (With an invalid
\* date among three or more elements the comparator is inconsistent and the
\* order is the engine's; the lists with invalid dates have at most
\* MaxMalformedEvents elements.)
RECURSIVE sortByTimestamp(_)
insertByTimestamp(x, s) ==
  LET after == {i \in 1..Len(s) : timeCompare(s[i].timestamp, x.timestamp) <= 0}
      k     == IF after = {} THEN 0 ELSE CHOOSE i \in after : \A j \in after : j <= i
  IN  SubSeq(s, 1, k) \o <<x>> \o SubSeq(s, k + 1, Len(s))

sortByTimestamp(s) ==
  IF s = <<>> THEN <<>>
  ELSE insertByTimestamp(s[Len(s)], sortByTimestamp(SubSeq(s, 1, Len(s) - 1)))

\* sessions.sort((a, b) => getTime(b.startTime) - getTime(a.startTime)):
\* descending by start time, stable.
RECURSIVE sortSessionsLatestFirst(_)
insertLatestFirst(x, s) ==
  LET after == {i \in 1..Len(s) : timeCompare(x.startTime, s[i].startTime) <= 0}
      k     == IF after = {} THEN 0 ELSE CHOOSE i \in after : \A j \in after : j <= i
  IN  SubSeq(s, 1, k) \o <<x>> \o SubSeq(s, k + 1, Len(s))

sortSessionsLatestFirst(s) ==
  IF s = <<>> THEN <<>>
  ELSE insertLatestFirst(s[Len(s)], sortSessionsLatestFirst(SubSeq(s, 1, Len(s) - 1)))

\* groups.sort((a, b) => a.workerName.localeCompare(b.workerName)), stable.
RECURSIVE sortGroupsByName(_)
insertByName(x, s) ==
  LET after == {i \in 1..Len(s) : NameRank(s[i].workerName) <= NameRank(x.workerName)}
      k     == IF after = {} THEN 0 ELSE CHOOSE i \in after : \A j \in after : j <= i
  IN  SubSeq(s, 1, k) \o <<x>> \o SubSeq(s, k + 1, Len(s))

\* Mutant of sortGroupsByName: the groups stay in the order they were pushed.
sortGroupsByName_Unsorted(s) == s

sortGroupsByName(s) ==
  IF s = <<>> THEN <<>>
  ELSE insertByName(s[Len(s)], sortGroupsByName(SubSeq(s, 1, Len(s) - 1)))

\* array.find over the set of matching indices: the first of them, 0 if none.
FirstIndex(hits) ==
  IF hits = {} THEN 0 ELSE CHOOSE i \in hits : \A j \in hits : i <= j

\* The elements of a sequence as a set.
Range(s) == {s[i] : i \in 1..Len(s)}

----------------------------------------------------------------------------
(* groupedSessions, per worker.                                            *)

IsStartWork(l) == l.type = "StartWork"
IsCompleteWork(l) == l.type = "CompleteWork"

\* workerGroups: the StartWork/CompleteWork logs of one worker, in list order.
workerGroup(logs, workerName) ==
  SelectSeq(logs, LAMBDA l : (IsStartWork(l) \/ IsCompleteWork(l))
                             /\ l.workerName = workerName)

\* Object.keys(workerGroups): the worker names in order of first appearance.
RECURSIVE workerKeys(_)
workerKeys(logs) ==
  IF logs = <<>> THEN <<>>
  ELSE LET front == workerKeys(SubSeq(logs, 1, Len(logs) - 1))
           l     == logs[Len(logs)]
       IN  IF (IsStartWork(l) \/ IsCompleteWork(l)) /\ l.workerName \notin Range(front)
           THEN Append(front, l.workerName)
           ELSE front

\* The stage of a worker: the name of the user's department, else 'Unknown'.
stageOf(us, deps, workerName) ==
  LET ui == FirstIndex({i \in 1..Len(us) : us[i].name = workerName})
  IN  IF ui = 0 \/ us[ui].departmentId = 0 THEN "Unknown"
      ELSE LET di == FirstIndex({i \in 1..Len(deps) : deps[i].id = us[ui].departmentId})
           IN  IF di = 0 \/ deps[di].name = "" THEN "Unknown" ELSE deps[di].name

\* `${h}h ${m}m` from differenceInMinutes(end, start).
durationOf(startTs, endTs) ==
  LET diff == differenceInMinutes(endTs, startTs)
  IN  [kind |-> "hm", h |-> MathFloorDiv60(diff), m |-> JsRem60(diff)]

\* The session of a start paired with a complete.
completedSession(startLog, comp, workerName, stage) ==
  [id |-> startLog.id, workerName |-> workerName, workerStage |-> stage,
   date |-> startLog.timestamp, startTime |-> startLog.timestamp,
   startPhoto |-> startLog.photoUrl,
   endTime |-> comp.timestamp, endPhoto |-> comp.photoUrl,
   duration |-> durationOf(startLog.timestamp, comp.timestamp),
   status |-> "Completed"]

\* The session of a start that has no complete: 'Abandoned' or 'In Progress'.
openSession(startLog, workerName, stage, status) ==
  [id |-> startLog.id, workerName |-> workerName, workerStage |-> stage,
   date |-> startLog.timestamp, startTime |-> startLog.timestamp,
   startPhoto |-> startLog.photoUrl,
   endTime |-> Null, endPhoto |-> Null,
   duration |-> [kind |-> status, h |-> 0, m |-> 0],
   status |-> status]

\* The session of a complete reached while no start is open.
orphanSession(log, workerName, stage) ==
  [id |-> log.id, workerName |-> workerName, workerStage |-> stage,
   date |-> log.timestamp, startTime |-> log.timestamp,
   startPhoto |-> 0,
   endTime |-> log.timestamp, endPhoto |-> log.photoUrl,
   duration |-> NoDuration,
   status |-> "Completed"]

\* Mutant of linkedStart: looks the start up by the complete's own id.
linkedStart_ByOwnId(starts, comp) ==
  IF comp.relatedLogId # 0
  THEN FirstIndex({i \in 1..Len(starts) : starts[i].id = comp.id})
  ELSE 0

\* PASS 1 lookup: the index in starts of the start a complete links to, 0 if none.
linkedStart(starts, comp) ==
  IF comp.relatedLogId # 0
  THEN FirstIndex({i \in 1..Len(starts) : starts[i].id = comp.relatedLogId})
  ELSE 0

\* Mutant of explicitLinks: a complete that carries a relatedLogId is marked
\* consumed whether or not its start was found.
explicitLinks_ConsumesDangling(starts, completes, workerName, stage) ==
  LET linked == SelectSeq(completes, LAMBDA c : linkedStart(starts, c) # 0)
  IN  [sessions |-> [i \in 1..Len(linked) |->
                       completedSession(starts[linkedStart(starts, linked[i])],
                                        linked[i], workerName, stage)],
       consumedStartIds    |-> {starts[linkedStart(starts, c)].id : c \in Range(linked)},
       consumedCompleteIds |-> {c.id : c \in {d \in Range(completes) : d.relatedLogId # 0}}]

\* PASS 1: one 'Completed' session per complete that links to a start of the
\* worker, in the order of the completes, and the ids consumed.
explicitLinks(starts, completes, workerName, stage) ==
  LET linked == SelectSeq(completes, LAMBDA c : linkedStart(starts, c) # 0)
  IN  [sessions |-> [i \in 1..Len(linked) |->
                       completedSession(starts[linkedStart(starts, linked[i])],
                                        linked[i], workerName, stage)],
       consumedStartIds    |-> {starts[linkedStart(starts, c)].id : c \in Range(linked)},
       consumedCompleteIds |-> {c.id : c \in Range(linked)}]

\* Mutant of legacyOnStart: the open start is replaced and never emitted.
legacyOnStart_NoAbandon(w, log, workerName, stage) ==
  [sessions |-> w.sessions, currentStart |-> <<log>>]

\* PASS 2 on a StartWork: w is [sessions, currentStart], currentStart a
\* sequence of at most one log (empty is null). An open start is pushed as
\* 'Abandoned'; the log becomes the open start.
legacyOnStart(w, log, workerName, stage) ==
  [sessions |-> IF w.currentStart # <<>>
                THEN Append(w.sessions,
                            openSession(w.currentStart[1], workerName, stage, "Abandoned"))
                ELSE w.sessions,
   currentStart |-> <<log>>]

\* Mutant of legacyOnComplete: the open start stays open after its pair.
legacyOnComplete_KeepsOpen(w, log, workerName, stage) ==
  IF w.currentStart # <<>>
  THEN [sessions |-> Append(w.sessions,
                            completedSession(w.currentStart[1], log, workerName, stage)),
        currentStart |-> w.currentStart]
  ELSE [sessions |-> Append(w.sessions, orphanSession(log, workerName, stage)),
        currentStart |-> w.currentStart]

\* Mutant of legacyOnComplete: a complete with no open start is skipped.
legacyOnComplete_DropsOrphan(w, log, workerName, stage) ==
  IF w.currentStart # <<>>
  THEN [sessions |-> Append(w.sessions,
                            completedSession(w.currentStart[1], log, workerName, stage)),
        currentStart |-> <<>>]
  ELSE w

\* PASS 2 on a CompleteWork: with an open start, the pair is pushed and the
\* open start cleared; with none, the orphan is pushed.
legacyOnComplete(w, log, workerName, stage) ==
  IF w.currentStart # <<>>
  THEN [sessions |-> Append(w.sessions,
                            completedSession(w.currentStart[1], log, workerName, stage)),
        currentStart |-> <<>>]
  ELSE [sessions |-> Append(w.sessions, orphanSession(log, workerName, stage)),
        currentStart |-> w.currentStart]

\* PASS 2, one iteration of timeline.forEach.
legacyStep(w, log, workerName, stage) ==
  IF IsStartWork(log) THEN legacyOnStart(w, log, workerName, stage)
  ELSE IF IsCompleteWork(log) THEN legacyOnComplete(w, log, workerName, stage)
  ELSE w

\* PASS 2: the walk over the whole timeline.
RECURSIVE legacyWalk(_, _, _)
legacyWalk(timeline, workerName, stage) ==
  IF timeline = <<>> THEN [sessions |-> <<>>, currentStart |-> <<>>]
  ELSE legacyStep(legacyWalk(SubSeq(timeline, 1, Len(timeline) - 1), workerName, stage),
                  timeline[Len(timeline)], workerName, stage)

\* The timeline of PASS 2: the unconsumed starts, then the unconsumed completes,
\* sorted by timestamp.
legacyTimeline(wLogs, workerName, stage) ==
  LET starts    == SelectSeq(wLogs, IsStartWork)
      completes == SelectSeq(wLogs, IsCompleteWork)
      p1        == explicitLinks(starts, completes, workerName, stage)
      remainingCompletes == SelectSeq(completes, LAMBDA c : c.id \notin p1.consumedCompleteIds)
      remainingStarts    == SelectSeq(starts, LAMBDA st : st.id \notin p1.consumedStartIds)
  IN  sortByTimestamp(remainingStarts \o remainingCompletes)

\* Mutant of workerSessions: a start left open at the end is not emitted.
workerSessions_NoInProgress(logs, workerName, stage) ==
  LET wLogs     == sortByTimestamp(workerGroup(logs, workerName))
      starts    == SelectSeq(wLogs, IsStartWork)
      completes == SelectSeq(wLogs, IsCompleteWork)
      p1        == explicitLinks(starts, completes, workerName, stage)
      w         == legacyWalk(legacyTimeline(wLogs, workerName, stage), workerName, stage)
  IN  p1.sessions \o w.sessions

\* Mutant of workerSessions: the start left open at the end of the timeline
\* is emitted as 'Abandoned'.
workerSessions_OpenIsAbandoned(logs, workerName, stage) ==
  LET wLogs     == sortByTimestamp(workerGroup(logs, workerName))
      starts    == SelectSeq(wLogs, IsStartWork)
      completes == SelectSeq(wLogs, IsCompleteWork)
      p1        == explicitLinks(starts, completes, workerName, stage)
      w         == legacyWalk(legacyTimeline(wLogs, workerName, stage), workerName, stage)
      open      == IF w.currentStart # <<>>
                   THEN <<openSession(w.currentStart[1], workerName, stage, "Abandoned")>>
                   ELSE <<>>
  IN  p1.sessions \o w.sessions \o open

\* workerSessions before the date filter: PASS 1, PASS 2, then the open start.
workerSessions(logs, workerName, stage) ==
  LET wLogs     == sortByTimestamp(workerGroup(logs, workerName))
      starts    == SelectSeq(wLogs, IsStartWork)
      completes == SelectSeq(wLogs, IsCompleteWork)
      p1        == explicitLinks(starts, completes, workerName, stage)
      w         == legacyWalk(legacyTimeline(wLogs, workerName, stage), workerName, stage)
      inProgress == IF w.currentStart # <<>>
                    THEN <<openSession(w.currentStart[1], workerName, stage, "In Progress")>>
                    ELSE <<>>
  IN  p1.sessions \o w.sessions \o inProgress

\* Filter by Date: all sessions when filterDate is '', else those whose
\* startTime is on the same local day as new Date(filterDate).
filterByDate(sessions, fd, offset) ==
  IF fd # 0
  THEN SelectSeq(sessions, LAMBDA x : isSameDay(x.startTime, ParseDateOnly(fd), offset))
  ELSE sessions

\* A group pushed although it has no session.
pushGroup_EvenIfEmpty(groups, workerName, wStage, filteredSessions) ==
  Append(groups,
         [workerName |-> workerName, workerStage |-> wStage,
          sessions |-> sortSessionsLatestFirst(filteredSessions)])

\* if (filteredSessions.length > 0) groups.push({...}), sessions latest first.
pushGroup(groups, workerName, wStage, filteredSessions) ==
  IF Len(filteredSessions) > 0
  THEN Append(groups,
              [workerName |-> workerName, workerStage |-> wStage,
               sessions |-> sortSessionsLatestFirst(filteredSessions)])
  ELSE groups

\* Mutant of skipsWorker: the stage select is not consulted.
skipsWorker_IgnoresStage(stage, worker, wStage, workerName) ==
  worker # "All" /\ workerName # worker

\* The two returns of the forEach callback: the worker is skipped when a
\* stage is selected and is not the worker's, or when a worker is selected
\* and is not this one.
skipsWorker(stage, worker, wStage, workerName) ==
  \/ stage # "All" /\ wStage # stage
  \/ worker # "All" /\ workerName # worker

\* The groups pushed by Object.keys(workerGroups).forEach, in key order.
RECURSIVE workerGroupsLoop(_, _, _, _, _, _, _, _)
workerGroupsLoop(keys, fd, logs, us, deps, stage, worker, offset) ==
  IF keys = <<>> THEN <<>>
  ELSE LET groups     == workerGroupsLoop(SubSeq(keys, 1, Len(keys) - 1),
                                          fd, logs, us, deps, stage, worker, offset)
           workerName == keys[Len(keys)]
           wStage     == stageOf(us, deps, workerName)
           filteredSessions ==
             filterByDate(workerSessions(logs, workerName, wStage), fd, offset)
       IN  IF skipsWorker(stage, worker, wStage, workerName) THEN groups
           ELSE pushGroup(groups, workerName, wStage, filteredSessions)

\* groupedSessions as a function of its useMemo dependencies and the time zone.
GroupedSessions(fd, logs, us, deps, stage, worker, offset) ==
  sortGroupsByName(workerGroupsLoop(workerKeys(logs), fd, logs, us, deps,
                                    stage, worker, offset))

----------------------------------------------------------------------------
(* The view: its state, the data it fetches and its handlers.              *)

\* relatedLogId of a CompleteWork in the fetched data: absent, or an event id.
LinkChoices == {0, 1}

\* The photo url of the event with a given id: non-empty, one per event.
PhotoOf(id) == 100 + id

\* The events the daily-log endpoint can return, without their ids.
\* Asha's work events take every time and link; Ben has one start and one
\* complete, and one attendance event ('Start'), which the view ignores.
EventTemplates ==
  [workerName : {"Asha"}, type : {"StartWork"}, timestamp : Times, relatedLogId : {0}]
  \cup [workerName : {"Asha"}, type : {"CompleteWork"}, timestamp : Times,
        relatedLogId : LinkChoices]
  \cup {[workerName |-> "Ben", type |-> "StartWork", timestamp |-> T2, relatedLogId |-> 0],
        [workerName |-> "Ben", type |-> "CompleteWork", timestamp |-> T3, relatedLogId |-> 0],
        [workerName |-> "Ben", type |-> "Start", timestamp |-> T1, relatedLogId |-> 0]}

\* A response of the daily-log endpoint: the event at position i has id i, so
\* the ids of a response are distinct (the view uses them as lookup keys and as
\* React keys) and a relatedLogId can name an earlier event, a later one, an
\* event that is no start, another worker's event, or no event of the list.
EventList(f) ==
  [i \in DOMAIN f |->
     [id |-> i, workerName |-> f[i].workerName, type |-> f[i].type,
      timestamp |-> f[i].timestamp, photoUrl |-> PhotoOf(i),
      relatedLogId |-> f[i].relatedLogId]]

\* The users and departments returned by the backend.
FetchedDepartments == <<[id |-> 1, name |-> "Casting"]>>
FetchedUsers ==
  <<[id |-> 1, name |-> "Asha", role |-> "Worker", departmentId |-> 1],
    [id |-> 2, name |-> "Ben", role |-> "Worker", departmentId |-> 0]>>

\* The memo sorting the dailyLogs array itself, in place.
dailyLogsAfterMemo_SortsInPlace(logs) == sortByTimestamp(logs)

\* The memo taking the work events out of the dailyLogs array as it goes.
dailyLogsAfterMemo_DrainsWorkEvents(logs) ==
  SelectSeq(logs, LAMBDA l : ~IsStartWork(l) /\ ~IsCompleteWork(l))

\* The dailyLogs array once the memo has run on it: forEach reads it and
\* pushes its elements onto the fresh arrays of workerGroups; the in-place
\* sorts are those of workerGroups[workerName], of timeline (a filter result),
\* of filteredSessions and of groups, none of which is dailyLogs.
dailyLogsAfterMemo(logs) == logs

\* The render that follows a state change: useMemo recomputes groupedSessions
\* from the dailyLogs array, which it leaves as dailyLogsAfterMemo says.
Render(fd, logs, us, deps, stage, worker) ==
  /\ groupedSessions' = GroupedSessions(fd, logs, us, deps, stage, worker, tz)
  /\ dailyLogs' = dailyLogsAfterMemo(logs)

\* The browser contexts that call dataService, each one call at a time.
Clients == {"c1", "c2"}

\* No job (undefined), and a context with no call in flight.
NoJob == [id |-> 0, currentStage |-> "", history |-> <<>>]
Idle == [op |-> "idle", jobId |-> 0, job |-> NoJob]

\* The backend's collections before any request.
EmptyDb == [jobs |-> <<>>, dailyLogs |-> <<>>, users |-> {}, departments |-> {}]

\* No getter called yet.
NoCall == [getter |-> "", response |-> "", result |-> [state |-> "", value |-> <<>>]]

\* DailyPhotoFeed's useState initial values, and its fetchData not settled.
\* The three calls of its Promise.all are in flight.
FeedGetters == {"getDailyLogs", "getJobs", "getUsers"}
Unsettled == [state |-> "pending", value |-> <<>>]
FeedMounted ==
  [loading |-> TRUE, allDailyLogs |-> <<>>, allJobs |-> <<>>, allUsers |-> <<>>,
   fetchData |-> "pending", results |-> [g \in FeedGetters |-> Unsettled]]

\* No handler of the admin views has run.
NoAlert == [handler |-> "", arg |-> "", response |-> "", message |-> ""]

\* localStorage with no item.
EmptyStorage == [k \in {} |-> <<>>]

Init ==
  /\ settled = NoCall
  /\ feed = FeedMounted
  /\ alerted = NoAlert
  /\ localStorage = EmptyStorage
  /\ sessionLog = <<>>
  /\ db = EmptyDb
  /\ calls = [c \in Clients |-> Idle]
  /\ now = 1
  /\ tz \in TzOffsets
  /\ loading = TRUE
  /\ dailyLogs = <<>>
  /\ users = <<>>
  /\ departments = <<>>
  /\ filterDate \in FilterDays
  /\ selectedStage = "All"
  /\ selectedWorker = "All"
  /\ groupedSessions = <<>>
  /\ fetchData = "pending"

\* useEffect fetchData: the three requests succeed and the state is set.
FetchData ==
  /\ loading
  /\ fetchData = "pending"
  /\ \E n \in 0..MaxEvents : \E f \in [1..n -> EventTemplates] :
       /\ users' = FetchedUsers
       /\ departments' = FetchedDepartments
       /\ loading' = FALSE
       /\ Render(filterDate, EventList(f), users', departments', selectedStage, selectedWorker)
  /\ fetchData' = "fulfilled"
  /\ UNCHANGED <<tz, filterDate, selectedStage, selectedWorker>>
  /\ UNCHANGED <<storeVars, appVars>>

\* The date input's onChange.
SetFilterDate ==
  /\ ~loading
  /\ \E d \in FilterDays \cup {0} :
       /\ d # filterDate
       /\ filterDate' = d
       /\ Render(d, dailyLogs, users, departments, selectedStage, selectedWorker)
  /\ UNCHANGED <<tz, loading, users, departments, selectedStage, selectedWorker,
                 fetchData>>
  /\ UNCHANGED <<storeVars, appVars>>

\* The 'Clear Filters' button, shown while some filter is set.
ClearFilters ==
  /\ ~loading
  /\ filterDate # 0 \/ selectedStage # "All" \/ selectedWorker # "All"
  /\ filterDate' = 0
  /\ selectedStage' = "All"
  /\ selectedWorker' = "All"
  /\ Render(0, dailyLogs, users, departments, "All", "All")
  /\ UNCHANGED <<tz, loading, users, departments, fetchData>>
  /\ UNCHANGED <<storeVars, appVars>>

\* The view with the stage and worker selectors left at 'All'.
Next == FetchData \/ SetFilterDate \/ ClearFilters

Spec == Init /\ [][Next]_vars

\* The same view in a browser in India, for what does not depend on the zone.
OneZoneInit == Init /\ tz = 19800

OneZoneSpec == OneZoneInit /\ [][Next]_vars

----------------------------------------------------------------------------
(* The view with its stage and worker selectors and every outcome of the   *)
(* three requests of fetchData.                                            *)

\* What fetch does with a request: a response with an OK status, a response
\* with another status, or a rejection (no response).
Responses == {"ok", "notOk", "rejected"}

Fulfilled(v) == [state |-> "fulfilled", value |-> v]
Rejected == [state |-> "rejected", value |-> <<>>]

\* getDailyLogs: [] on a non-OK response, the body on an OK one; a rejected
\* fetch rejects the call.
getDailyLogs(resp, body) ==
  IF resp = "rejected" THEN Rejected
  ELSE IF resp = "notOk" THEN Fulfilled(<<>>)
  ELSE Fulfilled(body)

\* getUsers: throws on a non-OK response.
getUsers(resp, body) ==
  IF resp = "ok" THEN Fulfilled(body) ELSE Rejected

\* getDepartments: throws on a non-OK response.
getDepartments(resp, body) ==
  IF resp = "ok" THEN Fulfilled(body) ELSE Rejected

\* Promise.all of the three calls: rejected as soon as one of them is.
PromiseAll(l, u, d) ==
  IF l.state = "fulfilled" /\ u.state = "fulfilled" /\ d.state = "fulfilled"
  THEN Fulfilled(<<l.value, u.value, d.value>>)
  ELSE Rejected

\* The bodies res.json() can give for the daily logs: read only from a
\* response with an OK status.
DailyLogBodies(resp) ==
  IF resp = "ok"
  THEN {EventList(f) : f \in UNION {[1..n -> EventTemplates] : n \in 0..MaxFewEvents}}
  ELSE {<<>>}

\* useEffect fetchData under every outcome of its requests: the setters run
\* after the await; a rejection of the await ends fetchData before them.
FetchDataAnyResponse ==
  /\ loading
  /\ fetchData = "pending"
  /\ \E rl \in Responses, ru \in Responses, rd \in Responses :
     \E body \in DailyLogBodies(rl) :
       LET all == PromiseAll(getDailyLogs(rl, body),
                             getUsers(ru, FetchedUsers),
                             getDepartments(rd, FetchedDepartments))
       IN  IF all.state = "fulfilled"
           THEN /\ users' = all.value[2]
                /\ departments' = all.value[3]
                /\ loading' = FALSE
                /\ Render(filterDate, all.value[1], users', departments',
                          selectedStage, selectedWorker)
                /\ fetchData' = "fulfilled"
           ELSE /\ fetchData' = "rejected"
                /\ UNCHANGED <<loading, dailyLogs, users, departments, groupedSessions>>
  /\ UNCHANGED <<tz, filterDate, selectedStage, selectedWorker>>
  /\ UNCHANGED <<storeVars, appVars>>

\* The options of the stage select: 'All' and the department names.
StageOptions == {"All"} \cup {departments[i].name : i \in 1..Len(departments)}

\* availableWorkers: the users of role 'Worker', of the selected stage's
\* department when a stage is selected.
availableWorkers ==
  {users[i].name : i \in {j \in 1..Len(users) :
       /\ users[j].role = "Worker"
       /\ selectedStage = "All" \/
            \E d \in 1..Len(departments) :
              /\ d = FirstIndex({k \in 1..Len(departments) :
                                   departments[k].id = users[j].departmentId})
              /\ departments[d].name = selectedStage}}

\* The stage select's onChange.
SetSelectedStage ==
  /\ ~loading
  /\ \E s \in StageOptions :
       /\ s # selectedStage
       /\ selectedStage' = s
       /\ Render(filterDate, dailyLogs, users, departments, s, selectedWorker)
  /\ UNCHANGED <<tz, loading, users, departments, filterDate, selectedWorker,
                 fetchData>>
  /\ UNCHANGED <<storeVars, appVars>>

\* The worker select's onChange: 'All' or one of availableWorkers.
SetSelectedWorker ==
  /\ ~loading
  /\ \E w \in {"All"} \cup availableWorkers :
       /\ w # selectedWorker
       /\ selectedWorker' = w
       /\ Render(filterDate, dailyLogs, users, departments, selectedStage, w)
  /\ UNCHANGED <<tz, loading, users, departments, filterDate, selectedStage,
                 fetchData>>
  /\ UNCHANGED <<storeVars, appVars>>

ViewNext ==
  \/ FetchDataAnyResponse
  \/ SetFilterDate
  \/ SetSelectedStage
  \/ SetSelectedWorker
  \/ ClearFilters

ViewSpec == Init /\ [][ViewNext]_vars

----------------------------------------------------------------------------
(* The view fed with timestamps that new Date cannot parse.                *)

\* The largest daily-log response with unparsable timestamps.
MaxMalformedEvents == 2

\* Asha's work events, each with a good timestamp or an unparsable one.
MalformedTemplates ==
  [workerName : {"Asha"}, type : {"StartWork"}, timestamp : {T1, NaN}, relatedLogId : {0}]
  \cup [workerName : {"Asha"}, type : {"CompleteWork"}, timestamp : {T2, NaN},
        relatedLogId : LinkChoices]

\* useEffect fetchData when the backend returns such events.
FetchMalformed ==
  /\ loading
  /\ fetchData = "pending"
  /\ \E n \in 0..MaxMalformedEvents : \E f \in [1..n -> MalformedTemplates] :
       /\ users' = FetchedUsers
       /\ departments' = FetchedDepartments
       /\ loading' = FALSE
       /\ Render(filterDate, EventList(f), users', departments', selectedStage, selectedWorker)
  /\ fetchData' = "fulfilled"
  /\ UNCHANGED <<tz, filterDate, selectedStage, selectedWorker>>
  /\ UNCHANGED <<storeVars, appVars>>

\* format(date, pattern) of date-fns throws RangeError('Invalid time value')
\* on an invalid date.
formatRaises(t) == t = NaN

\* The table rows: format of session.date, of session.startTime and, when
\* endTime is set, of session.endTime.
RenderRaises(groups) ==
  \E i \in 1..Len(groups) : \E j \in 1..Len(groups[i].sessions) :
    LET session == groups[i].sessions[j]
    IN  \/ formatRaises(session.date)
        \/ formatRaises(session.startTime)
        \/ session.endTime # Null /\ formatRaises(session.endTime)

MalformedNext == FetchMalformed \/ SetFilterDate \/ ClearFilters

MalformedSpec == Init /\ [][MalformedNext]_vars

----------------------------------------------------------------------------
(* dataService: the calls that change the backend's collections. A call is *)
(* a sequence of requests; the backend answers each request at once, and   *)
(* the requests of calls in flight in different contexts interleave.       *)
(* Of a job the model keeps id, currentStage and the stage names of its    *)
(* history; of an event id, workerName and type; of a user id and name.    *)

MaxJobs == 2
MaxDailyLogs == 2
MaxNow == 2

\* The fixed production sequence of '../types'.
STAGES == <<"CAD", "Polish", "Setting">>

\* STAGES.indexOf(stage): 0-based, -1 when the stage is not in STAGES.
indexOf(stage) == FirstIndex({i \in 1..Len(STAGES) : STAGES[i] = stage}) - 1

\* jobs.find(j => j.id === jobId): the position of the job, 0 for undefined.
findJob(jobs, jobId) == FirstIndex({i \in 1..Len(jobs) : jobs[i].id = jobId})

\* The id `J-${1000 + jobs.length + 1}` as its number.
newJobId(jobs) == 1000 + Len(jobs) + 1

\* The job ids a caller may pass: those createJob can give, and one more.
JobIdArgs == {1000 + n : n \in 1..(MaxJobs + 1)}

\* The values the other arguments are drawn from.
LogWorkers == {"Asha"}
LogTypes == {"StartWork", "CompleteWork"}
UserDocs == [id : {1}, name : {"Asha", "Ben"}]
DepartmentNames == {"Casting"}

Request(method, path, id, body) ==
  [method |-> method, path |-> path, id |-> id, body |-> body]

\* The request of each mutation.
createJobRequest(newJob) == Request("POST", "jobs", 0, newJob)
advanceJobRequest(jobId, updatedJob) == Request("PUT", "jobs", jobId, updatedJob)

\* addDailyLog sending its event as an update of the event of that id.
addDailyLogRequest_Put(newLog) == Request("PUT", "daily-logs", newLog.id, newLog)

addDailyLogRequest(newLog) == Request("POST", "daily-logs", 0, newLog)
addUserRequest(user) == Request("POST", "users", 0, user)
updateUserRequest(updatedUser) == Request("PUT", "users", updatedUser.id, updatedUser)
removeUserRequest(id) == Request("DELETE", "users", id, 0)
createDepartmentRequest(name) == Request("POST", "departments", 0, name)
deleteDepartmentRequest(id) == Request("DELETE", "departments", id, 0)

\* The id the backend gives a new department.
DepartmentIdOf(name) == CASE name = "Casting" -> 1 [] OTHER -> 2

\* The backend: a REST facade over collections of documents. POST adds a
\* document, PUT replaces the documents of the id, DELETE removes them, in
\* every collection: what becomes of the daily logs is up to the requests
\* the client sends.
handle(d, req) ==
  CASE req.path = "jobs" /\ req.method = "POST" ->
         [d EXCEPT !.jobs = Append(@, req.body)]
    [] req.path = "jobs" /\ req.method = "PUT" ->
         [d EXCEPT !.jobs = [i \in 1..Len(@) |->
                               IF @[i].id = req.id THEN req.body ELSE @[i]]]
    [] req.path = "daily-logs" /\ req.method = "POST" ->
         [d EXCEPT !.dailyLogs = Append(@, req.body)]
    [] req.path = "daily-logs" /\ req.method = "PUT" ->
         [d EXCEPT !.dailyLogs = [i \in 1..Len(@) |->
                                    IF @[i].id = req.id THEN req.body ELSE @[i]]]
    [] req.path = "daily-logs" /\ req.method = "DELETE" ->
         [d EXCEPT !.dailyLogs = SelectSeq(@, LAMBDA l : l.id # req.id)]
    [] req.path = "users" /\ req.method = "POST" ->
         [d EXCEPT !.users = @ \cup {req.body}]
    [] req.path = "users" /\ req.method = "PUT" ->
         [d EXCEPT !.users = IF \E u \in @ : u.id = req.id
                             THEN {u \in @ : u.id # req.id} \cup {req.body}
                             ELSE @]
    [] req.path = "users" /\ req.method = "DELETE" ->
         [d EXCEPT !.users = {u \in @ : u.id # req.id}]
    [] req.path = "departments" /\ req.method = "POST" ->
         [d EXCEPT !.departments =
            @ \cup {[id |-> DepartmentIdOf(req.body), name |-> req.body]}]
    [] req.path = "departments" /\ req.method = "DELETE" ->
         [d EXCEPT !.departments = {x \in @ : x.id # req.id}]
    [] OTHER -> d

\* createJob after getJobs: the new job, first stage, empty history.
newJobOf(jobs) ==
  [id |-> newJobId(jobs), currentStage |-> STAGES[1], history |-> <<>>]

\* Mutant of advanceJobUpdate: no test of the last stage, and the stage after
\* the last is the first again.
advanceJobUpdate_Wraps(jobs, jobId) ==
  LET ji  == findJob(jobs, jobId)
      job == jobs[ji]
      currentStageIdx == indexOf(job.currentStage)
  IN  IF ji = 0 THEN NoJob
      ELSE [job EXCEPT !.currentStage = STAGES[((currentStageIdx + 1) % Len(STAGES)) + 1],
                       !.history = Append(@, [stageName |-> job.currentStage])]

\* advanceJob after getJobs: the updatedJob it will send, NoJob when it
\* returns without sending (no such job, or the job is at the last stage).
advanceJobUpdate(jobs, jobId) ==
  LET ji  == findJob(jobs, jobId)
      job == jobs[ji]
      currentStageIdx == indexOf(job.currentStage)
  IN  IF ji = 0 THEN NoJob
      ELSE IF currentStageIdx >= Len(STAGES) - 1 THEN NoJob
      ELSE [job EXCEPT !.currentStage = STAGES[(currentStageIdx + 1) + 1],
                       !.history = Append(@, [stageName |-> job.currentStage])]

\* The createJob calls in flight.
CreatesInFlight ==
  Cardinality({c \in Clients : calls[c].op \in {"createJob:getJobs", "createJob:post"}})

\* createJob is called: it awaits getJobs.
CreateJob(c) ==
  /\ calls[c] = Idle
  /\ Len(db.jobs) + CreatesInFlight < MaxJobs
  /\ calls' = [calls EXCEPT ![c] = [op |-> "createJob:getJobs", jobId |-> 0, job |-> NoJob]]
  /\ UNCHANGED <<db, now>>
  /\ UNCHANGED <<viewVars, appVars>>

\* getJobs answers createJob: the new job is built from the jobs read.
CreateJobGotJobs(c) ==
  /\ calls[c].op = "createJob:getJobs"
  /\ calls' = [calls EXCEPT ![c] = [op |-> "createJob:post",
                                     jobId |-> newJobId(db.jobs),
                                     job |-> newJobOf(db.jobs)]]
  /\ UNCHANGED <<db, now>>
  /\ UNCHANGED <<viewVars, appVars>>

\* The POST of createJob reaches the backend.
CreateJobPost(c) ==
  /\ calls[c].op = "createJob:post"
  /\ db' = handle(db, createJobRequest(calls[c].job))
  /\ calls' = [calls EXCEPT ![c] = Idle]
  /\ UNCHANGED now
  /\ UNCHANGED <<viewVars, appVars>>

\* advanceJob is called on a job id: it awaits getJobs.
AdvanceJob(c) ==
  /\ calls[c] = Idle
  /\ \E jobId \in JobIdArgs :
       calls' = [calls EXCEPT ![c] = [op |-> "advanceJob:getJobs", jobId |-> jobId,
                                      job |-> NoJob]]
  /\ UNCHANGED <<db, now>>
  /\ UNCHANGED <<viewVars, appVars>>

\* getJobs answers advanceJob: it returns, or builds the update to send.
AdvanceJobGotJobs(c) ==
  /\ calls[c].op = "advanceJob:getJobs"
  /\ LET updatedJob == advanceJobUpdate(db.jobs, calls[c].jobId)
     IN  calls' = [calls EXCEPT ![c] =
                     IF updatedJob = NoJob THEN Idle
                     ELSE [op |-> "advanceJob:put", jobId |-> calls[c].jobId,
                           job |-> updatedJob]]
  /\ UNCHANGED <<db, now>>
  /\ UNCHANGED <<viewVars, appVars>>

\* The PUT of advanceJob reaches the backend.
AdvanceJobPut(c) ==
  /\ calls[c].op = "advanceJob:put"
  /\ db' = handle(db, advanceJobRequest(calls[c].jobId, calls[c].job))
  /\ calls' = [calls EXCEPT ![c] = Idle]
  /\ UNCHANGED now
  /\ UNCHANGED <<viewVars, appVars>>

\* addDailyLog: one request; the id is Date.now() at the call, which is the
\* millisecond of the previous call or a later one.
AddDailyLog(c) ==
  /\ calls[c] = Idle
  /\ Len(db.dailyLogs) < MaxDailyLogs
  /\ \E t \in {now, now + 1} : \E w \in LogWorkers : \E type \in LogTypes :
       /\ t <= MaxNow
       /\ now' = t
       /\ db' = handle(db, addDailyLogRequest([id |-> t, workerName |-> w, type |-> type]))
  /\ UNCHANGED calls
  /\ UNCHANGED <<viewVars, appVars>>

AddUser(c) ==
  /\ calls[c] = Idle
  /\ \E user \in UserDocs : db' = handle(db, addUserRequest(user))
  /\ UNCHANGED <<calls, now>>
  /\ UNCHANGED <<viewVars, appVars>>

UpdateUser(c) ==
  /\ calls[c] = Idle
  /\ \E user \in UserDocs : db' = handle(db, updateUserRequest(user))
  /\ UNCHANGED <<calls, now>>
  /\ UNCHANGED <<viewVars, appVars>>

RemoveUser(c) ==
  /\ calls[c] = Idle
  /\ \E user \in UserDocs : db' = handle(db, removeUserRequest(user.id))
  /\ UNCHANGED <<calls, now>>
  /\ UNCHANGED <<viewVars, appVars>>

CreateDepartment(c) ==
  /\ calls[c] = Idle
  /\ \E name \in DepartmentNames : db' = handle(db, createDepartmentRequest(name))
  /\ UNCHANGED <<calls, now>>
  /\ UNCHANGED <<viewVars, appVars>>

DeleteDepartment(c) ==
  /\ calls[c] = Idle
  /\ \E name \in DepartmentNames :
       db' = handle(db, deleteDepartmentRequest(DepartmentIdOf(name)))
  /\ UNCHANGED <<calls, now>>
  /\ UNCHANGED <<viewVars, appVars>>

\* The store before any call, beside a view that has not loaded.
StoreInit == Init /\ tz = 19800 /\ filterDate = 1

\* Every mutation of dataService, called from one context.
StoreNext ==
  \E c \in {"c1"} :
    \/ CreateJob(c) \/ CreateJobGotJobs(c) \/ CreateJobPost(c)
    \/ AdvanceJob(c) \/ AdvanceJobGotJobs(c) \/ AdvanceJobPut(c)
    \/ AddDailyLog(c)
    \/ AddUser(c) \/ UpdateUser(c) \/ RemoveUser(c)
    \/ CreateDepartment(c) \/ DeleteDepartment(c)

StoreSpec == StoreInit /\ [][StoreNext]_vars

\* The job calls, from every context.
JobsNext ==
  \E c \in Clients :
    \/ CreateJob(c) \/ CreateJobGotJobs(c) \/ CreateJobPost(c)
    \/ AdvanceJob(c) \/ AdvanceJobGotJobs(c) \/ AdvanceJobPut(c)

JobsSpec == StoreInit /\ [][JobsNext]_vars

----------------------------------------------------------------------------
(* Vocabulary of the properties.                                           *)

\* The sessions of a worker before the date filter, from the fetched logs.
SessionsBeforeFilter(w) == workerSessions(dailyLogs, w, stageOf(users, departments, w))

\* The sessions shown for a worker: those of its group in groupedSessions.
ShownSessions(w) ==
  UNION {Range(groupedSessions[i].sessions) :
           i \in {j \in 1..Len(groupedSessions) : groupedSessions[j].workerName = w}}

AllShownSessions == UNION {ShownSessions(w) : w \in WorkerNames}

\* The work events of a worker among the fetched logs.
StartsOf(w) == {l \in Range(dailyLogs) : IsStartWork(l) /\ l.workerName = w}
CompletesOf(w) == {l \in Range(dailyLogs) : IsCompleteWork(l) /\ l.workerName = w}

\* A complete that carries the id of a start of the same worker.
LinksTo(c, st) == c.relatedLogId # 0 /\ c.relatedLogId = st.id

LinkedCompletes(w) == {c \in CompletesOf(w) : \E st \in StartsOf(w) : LinksTo(c, st)}

\* The timeline of the legacy pass: the worker's events that no link consumed,
\* in the order the pass visits them.
TimelineOf(w) ==
  legacyTimeline(sortByTimestamp(workerGroup(dailyLogs, w)), w,
                 stageOf(users, departments, w))

\* Whole minutes of a difference of instants (toward zero).
WholeMinutes(d) == IF d >= 0 THEN d \div 60 ELSE -((-d) \div 60)

\* A session built from a start event and an end event.
HasStartEvent(x, w) ==
  \E st \in StartsOf(w) :
    x.id = st.id /\ x.startTime = st.timestamp /\ x.startPhoto = st.photoUrl
HasEndEvent(x, w) ==
  \E c \in CompletesOf(w) : x.endTime = c.timestamp /\ x.endPhoto = c.photoUrl

----------------------------------------------------------------------------
(* C1 *)

\* C1: every 'Completed' session of the output has both a start event and an
\* end event, and its end is not earlier than its start (explicit-link pass,
\* legacy pass and orphan completes alike).
C1_CompletedHasStartAndEnd ==
  \A w \in WorkerNames : \A x \in ShownSessions(w) :
    x.status = "Completed" =>
      /\ HasStartEvent(x, w)
      /\ HasEndEvent(x, w)
      /\ x.endTime >= x.startTime

\* The part of C1 about the order of the two timestamps alone.
C1_CompletedEndsAfterStart ==
  \A x \in AllShownSessions : x.status = "Completed" => x.endTime >= x.startTime

----------------------------------------------------------------------------
(* C2 *)

\* The session that pairs the start st with the complete c.
PairSession(x, st, c) ==
  /\ x.status = "Completed"
  /\ x.id = st.id
  /\ x.startTime = st.timestamp
  /\ x.startPhoto = st.photoUrl
  /\ x.endTime = c.timestamp
  /\ x.endPhoto = c.photoUrl

\* C2: a complete whose relatedLogId is the id of a start of the same worker
\* yields exactly one session, the 'Completed' pair of that start and that
\* complete, whatever lies between them in time; the linked start has no other
\* session than its pairs; neither event is in the timeline of the legacy
\* pass; with the date filter cleared the pair is shown.
C2_ExplicitLinkPairs ==
  ~loading =>
    \A w \in WorkerNames : \A c \in LinkedCompletes(w) : \A st \in StartsOf(w) :
      LinksTo(c, st) =>
        LET ws == SessionsBeforeFilter(w)
        IN  /\ Cardinality({n \in 1..Len(ws) : PairSession(ws[n], st, c)}) = 1
            /\ Cardinality({n \in 1..Len(ws) : ws[n].endPhoto = c.photoUrl}) = 1
            /\ \A i \in 1..Len(ws) :
                 ws[i].id = st.id =>
                   \E c2 \in LinkedCompletes(w) :
                     LinksTo(c2, st) /\ PairSession(ws[i], st, c2)
            /\ \A i \in 1..Len(ws) : ws[i].id # c.id
            /\ \A l \in Range(TimelineOf(w)) : l.id # st.id /\ l.id # c.id
            /\ filterDate = 0 =>
                 \E x \in ShownSessions(w) : PairSession(x, st, c)

\* C2 witness: overlapping tasks: a start linked by a later complete, with
\* another start of the worker between the two, is shown as a pair.
C2_Witness ==
  /\ ~loading
  /\ filterDate = 0
  /\ \E st \in StartsOf("Asha") : \E c \in CompletesOf("Asha") : \E mid \in StartsOf("Asha") :
       /\ LinksTo(c, st)
       /\ st.timestamp < mid.timestamp
       /\ mid.timestamp < c.timestamp
       /\ \E x \in ShownSessions("Asha") : PairSession(x, st, c)

----------------------------------------------------------------------------
(* C3 *)

\* C3: for every explicit-link pair, in either order of the two timestamps,
\* the session's duration 'Hh Mm' satisfies 60*H + M = the whole minutes of
\* complete.timestamp - start.timestamp.
C3_ExplicitLinkDuration ==
  ~loading =>
    \A w \in WorkerNames : \A c \in LinkedCompletes(w) : \A st \in StartsOf(w) :
      LinksTo(c, st) =>
        LET ws == SessionsBeforeFilter(w)
        IN  \A i \in 1..Len(ws) :
              PairSession(ws[i], st, c) =>
                /\ ws[i].duration.kind = "hm"
                /\ 60 * ws[i].duration.h + ws[i].duration.m
                     = WholeMinutes(c.timestamp - st.timestamp)

----------------------------------------------------------------------------
(* C4 *)

\* A session of a start that has no end: no end time, no end photo, and a
\* duration that is the status word, not a number of hours and minutes.
OpenSessionOf(x, st, status) ==
  /\ x.status = status
  /\ x.id = st.id
  /\ x.startTime = st.timestamp
  /\ x.startPhoto = st.photoUrl
  /\ x.endTime = Null
  /\ x.endPhoto = Null
  /\ x.duration = [kind |-> status, h |-> 0, m |-> 0]

\* The session the legacy pass owes to the start at position i of a timeline:
\* what the event after it makes of it once it is the open start.
StartOutcome(tl, i, x) ==
  IF i = Len(tl) THEN OpenSessionOf(x, tl[i], "In Progress")
  ELSE IF IsStartWork(tl[i + 1]) THEN OpenSessionOf(x, tl[i], "Abandoned")
  ELSE PairSession(x, tl[i], tl[i + 1])

\* C4: in the timeline of the legacy pass, a start followed by another start
\* is emitted once, as 'Abandoned' with no end time, end photo or numeric
\* duration, and the following start becomes the open start (its own session
\* is decided by what follows it); so a worker whose only events are n unlinked
\* starts at distinct times has n-1 'Abandoned' sessions, the earlier starts,
\* and one 'In Progress' session, the latest.
C4_StartWhileOpenAbandons ==
  ~loading =>
    \A w \in WorkerNames :
      LET tl == TimelineOf(w)
          ws == SessionsBeforeFilter(w)
      IN  /\ \A i \in 1..(Len(tl) - 1) :
               IsStartWork(tl[i]) /\ IsStartWork(tl[i + 1]) =>
                 /\ Cardinality({n \in 1..Len(ws) : ws[n].id = tl[i].id}) = 1
                 /\ \E k \in 1..Len(ws) : OpenSessionOf(ws[k], tl[i], "Abandoned")
                 /\ Cardinality({n \in 1..Len(ws) : ws[n].id = tl[i + 1].id}) = 1
                 /\ \E k \in 1..Len(ws) : StartOutcome(tl, i + 1, ws[k])
          /\ ( /\ CompletesOf(w) = {}
               /\ StartsOf(w) # {}
               /\ \A a, b \in StartsOf(w) : a # b => a.timestamp # b.timestamp )
             => LET latest == CHOOSE a \in StartsOf(w) :
                                \A b \in StartsOf(w) : b.timestamp <= a.timestamp
                IN  /\ Len(ws) = Cardinality(StartsOf(w))
                    /\ Cardinality({n \in 1..Len(ws) : ws[n].status = "Abandoned"})
                         = Cardinality(StartsOf(w)) - 1
                    /\ \A a \in StartsOf(w) \ {latest} :
                         \E k \in 1..Len(ws) : OpenSessionOf(ws[k], a, "Abandoned")
                    /\ \E k \in 1..Len(ws) : OpenSessionOf(ws[k], latest, "In Progress")

\* C4 witness: a worker with three unlinked starts at three distinct times and
\* nothing else, shown as two 'Abandoned' sessions and one 'In Progress'.
C4_Witness ==
  /\ ~loading
  /\ filterDate = 0
  /\ CompletesOf("Asha") = {}
  /\ {a.timestamp : a \in StartsOf("Asha")} = Times
  /\ Cardinality(StartsOf("Asha")) = 3
  /\ Cardinality({x \in ShownSessions("Asha") : x.status = "Abandoned"}) = 2
  /\ Cardinality({x \in ShownSessions("Asha") : x.status = "In Progress"}) = 1

----------------------------------------------------------------------------
(* C5 *)

\* The orphan session of a complete: 'Completed', duration '--', no start
\* photo, and the complete's own timestamp where a start time would be.
OrphanSessionOf(x, c) ==
  /\ x.status = "Completed"
  /\ x.id = c.id
  /\ x.duration = NoDuration
  /\ x.startPhoto = 0
  /\ x.startTime = c.timestamp
  /\ x.date = c.timestamp
  /\ x.endTime = c.timestamp
  /\ x.endPhoto = c.photoUrl

\* C5: in the timeline of the legacy pass, a start followed by a complete
\* yields exactly one session for that start, the 'Completed' pair of the two,
\* and exactly one session for that complete; the open start is cleared: a
\* complete that follows immediately is an orphan and is not paired with the
\* same start.
C5_CompleteWhileOpenPairsOnce ==
  ~loading =>
    \A w \in WorkerNames :
      LET tl == TimelineOf(w)
          ws == SessionsBeforeFilter(w)
      IN  \A i \in 1..(Len(tl) - 1) :
            IsStartWork(tl[i]) /\ IsCompleteWork(tl[i + 1]) =>
              /\ Cardinality({n \in 1..Len(ws) : ws[n].id = tl[i].id}) = 1
              /\ Cardinality({n \in 1..Len(ws) : PairSession(ws[n], tl[i], tl[i + 1])}) = 1
              /\ Cardinality({n \in 1..Len(ws) : ws[n].endPhoto = tl[i + 1].photoUrl}) = 1
              /\ (i + 2 <= Len(tl) /\ IsCompleteWork(tl[i + 2])) =>
                   /\ Cardinality({n \in 1..Len(ws) : ws[n].endPhoto = tl[i + 2].photoUrl}) = 1
                   /\ \E k \in 1..Len(ws) : OrphanSessionOf(ws[k], tl[i + 2])

\* C5 witness: start, complete, complete, all unlinked and in this order of
\* time: one pair and one orphan are shown.
C5_Witness ==
  /\ ~loading
  /\ filterDate = 0
  /\ LET tl == TimelineOf("Asha")
     IN  /\ Len(tl) = 3
         /\ IsStartWork(tl[1]) /\ IsCompleteWork(tl[2]) /\ IsCompleteWork(tl[3])
         /\ tl[1].timestamp < tl[2].timestamp
         /\ \E x \in ShownSessions("Asha") : PairSession(x, tl[1], tl[2])
         /\ \E x \in ShownSessions("Asha") : OrphanSessionOf(x, tl[3])

----------------------------------------------------------------------------
(* C6 *)

\* C6: in the timeline of the legacy pass, a complete that is first or follows
\* another complete (no start is open) yields exactly one session: 'Completed',
\* duration '--', no start photo, and no start time taken from a start event
\* (the start time is the complete's own timestamp); with the date filter
\* cleared it is shown.
C6_OrphanComplete ==
  ~loading =>
    \A w \in WorkerNames :
      LET tl == TimelineOf(w)
          ws == SessionsBeforeFilter(w)
      IN  \A i \in 1..Len(tl) :
            (IsCompleteWork(tl[i]) /\ (i = 1 \/ IsCompleteWork(tl[i - 1]))) =>
              /\ Cardinality({n \in 1..Len(ws) : ws[n].endPhoto = tl[i].photoUrl}) = 1
              /\ Cardinality({n \in 1..Len(ws) : OrphanSessionOf(ws[n], tl[i])}) = 1
              /\ filterDate = 0 => \E x \in ShownSessions(w) : OrphanSessionOf(x, tl[i])

\* C6 witness: a complete earlier than every start of the worker is shown as
\* an orphan.
C6_Witness ==
  /\ ~loading
  /\ filterDate = 0
  /\ \E c \in CompletesOf("Asha") :
       /\ c.relatedLogId = 0
       /\ StartsOf("Asha") # {}
       /\ \A st \in StartsOf("Asha") : c.timestamp < st.timestamp
       /\ \E x \in ShownSessions("Asha") : OrphanSessionOf(x, c)

----------------------------------------------------------------------------
(* C7 *)

\* C7: before the date filter, a worker has an 'In Progress' session exactly
\* when the legacy walk ends with an open start, that is when the last event
\* of the legacy timeline is a start; there is then exactly one, built from
\* that start, with no end time and no end photo.
C7_InProgressIffOpenAtEnd ==
  ~loading =>
    \A w \in WorkerNames :
      LET tl == TimelineOf(w)
          ws == SessionsBeforeFilter(w)
          openAtEnd == Len(tl) > 0 /\ IsStartWork(tl[Len(tl)])
      IN  /\ (\E k \in 1..Len(ws) : ws[k].status = "In Progress") <=> openAtEnd
          /\ openAtEnd =>
               /\ Cardinality({n \in 1..Len(ws) : ws[n].status = "In Progress"}) = 1
               /\ \A k \in 1..Len(ws) :
                    ws[k].status = "In Progress" =>
                      OpenSessionOf(ws[k], tl[Len(tl)], "In Progress")

\* C7 witness: a pair followed by a later start: the later start is shown 'In
\* Progress' next to the 'Completed' pair.
C7_Witness ==
  /\ ~loading
  /\ filterDate = 0
  /\ LET tl == TimelineOf("Asha")
     IN  /\ Len(tl) = 3
         /\ IsStartWork(tl[1]) /\ IsCompleteWork(tl[2]) /\ IsStartWork(tl[3])
         /\ \E x \in ShownSessions("Asha") : OpenSessionOf(x, tl[3], "In Progress")
         /\ \E x \in ShownSessions("Asha") : PairSession(x, tl[1], tl[2])

----------------------------------------------------------------------------
(* C8 *)

\* C8: for every pair of the legacy pass the complete is not earlier than the
\* start and the duration is 'Hh Mm' with H = floor(d / 60) and M = d mod 60 in
\* 0..59, d the whole minutes from start to complete; a worker whose only
\* events are an unlinked start and an unlinked complete 30 minutes later has
\* exactly one session, 'Completed' with duration '0h 30m'.
C8_LegacyPairDuration ==
  ~loading =>
    \A w \in WorkerNames :
      LET tl == TimelineOf(w)
          ws == SessionsBeforeFilter(w)
      IN  /\ \A i \in 1..(Len(tl) - 1) :
               IsStartWork(tl[i]) /\ IsCompleteWork(tl[i + 1]) =>
                 \A k \in 1..Len(ws) :
                   ws[k].id = tl[i].id =>
                     LET d == (tl[i + 1].timestamp - tl[i].timestamp) \div 60
                     IN  /\ ws[k].endTime >= ws[k].startTime
                         /\ d >= 0
                         /\ ws[k].duration.kind = "hm"
                         /\ ws[k].duration.h = d \div 60
                         /\ ws[k].duration.m = d % 60
                         /\ ws[k].duration.m \in 0..59
          /\ \A st \in StartsOf(w) : \A c \in CompletesOf(w) :
               ( /\ StartsOf(w) = {st}
                 /\ CompletesOf(w) = {c}
                 /\ c.relatedLogId = 0
                 /\ c.timestamp = st.timestamp + (30 * 60) )
               => /\ Len(ws) = 1
                  /\ PairSession(ws[1], st, c)
                  /\ ws[1].duration = [kind |-> "hm", h |-> 0, m |-> 30]

\* C8 witness: an unlinked start and an unlinked complete 11 hours 1 minute
\* and 30 seconds later are shown as a pair of duration '11h 1m'.
C8_Witness ==
  /\ ~loading
  /\ filterDate = 0
  /\ \E st \in StartsOf("Asha") : \E c \in CompletesOf("Asha") :
       /\ StartsOf("Asha") = {st}
       /\ CompletesOf("Asha") = {c}
       /\ c.relatedLogId = 0
       /\ c.timestamp - st.timestamp = (661 * 60) + 30
       /\ \E x \in ShownSessions("Asha") :
            PairSession(x, st, c) /\ x.duration = [kind |-> "hm", h |-> 11, m |-> 1]

----------------------------------------------------------------------------
(* C9 *)

\* The fetched logs in another insertion order.
Reorderings(logs) ==
  {[i \in 1..Len(logs) |-> logs[p[i]]] :
     p \in {q \in [1..Len(logs) -> 1..Len(logs)] :
              \A a, b \in 1..Len(logs) : a # b => q[a] # q[b]}}

\* The sessions of all the groups of a result of groupedSessions.
SessionSet(groups) == UNION {Range(groups[i].sessions) : i \in 1..Len(groups)}

\* Every session shown has a start event, on the day of the date filter.
ShownStartOnFilterDay ==
  \A w \in WorkerNames : \A x \in ShownSessions(w) :
    \E st \in StartsOf(w) :
      /\ x.id = st.id
      /\ x.startTime = st.timestamp
      /\ LocalDay(st.timestamp, tz) = filterDate

\* The sessions shown are the same for every insertion order of the events.
ShownIndependentOfOrder ==
  \A logs \in Reorderings(dailyLogs) :
    SessionSet(GroupedSessions(filterDate, logs, users, departments,
                               selectedStage, selectedWorker, tz))
      = SessionSet(groupedSessions)

\* C9: with a date filter D set, every session shown has a start event whose
\* timestamp falls on the calendar day D, and the sessions shown are the same
\* for every insertion order of the same events.
C9_DateFilter ==
  (~loading /\ filterDate # 0) => (ShownStartOnFilterDay /\ ShownIndependentOfOrder)

----------------------------------------------------------------------------
(* C10 *)

\* C10: the groups are in ascending order of worker name, no name twice, and
\* in each group the sessions are in non-increasing order of start time.
C10_GroupsAndSessionsSorted ==
  /\ \A i, j \in 1..Len(groupedSessions) :
       i < j => NameRank(groupedSessions[i].workerName)
                  < NameRank(groupedSessions[j].workerName)
  /\ \A g \in 1..Len(groupedSessions) :
       LET ss == groupedSessions[g].sessions
       IN  \A i, j \in 1..Len(ss) : i < j => ss[i].startTime >= ss[j].startTime

\* C10 witness: Ben's events are fetched before Asha's, Asha's group is shown
\* first, and it holds two sessions of different start times.
C10_Witness ==
  /\ Len(dailyLogs) >= 2
  /\ dailyLogs[1].workerName = "Ben"
  /\ Len(groupedSessions) = 2
  /\ groupedSessions[1].workerName = "Asha"
  /\ Len(groupedSessions[1].sessions) = 2
  /\ groupedSessions[1].sessions[1].startTime > groupedSessions[1].sessions[2].startTime

----------------------------------------------------------------------------
(* C11 *)

\* The groups of a worker in the output.
GroupsOf(w) == {i \in 1..Len(groupedSessions) : groupedSessions[i].workerName = w}

\* The worker passes the stage and worker selectors.
PassesSelectors(w) ==
  /\ selectedStage = "All" \/ stageOf(users, departments, w) = selectedStage
  /\ selectedWorker = "All" \/ w = selectedWorker

\* The sessions of a worker that the date filter keeps.
SessionsInWindow(w) == filterByDate(SessionsBeforeFilter(w), filterDate, tz)

\* C11: every group of the output has at least one session; a worker has a
\* group, and one only, exactly when it passes the stage and worker selectors
\* and some session of it survives the date filter: a worker with no session
\* in the filtered window is omitted, never shown as an empty group.
C11_NoEmptyGroup ==
  /\ \A i \in 1..Len(groupedSessions) : Len(groupedSessions[i].sessions) > 0
  /\ ~loading =>
       \A w \in WorkerNames :
         IF PassesSelectors(w) /\ SessionsInWindow(w) # <<>>
         THEN Cardinality(GroupsOf(w)) = 1
         ELSE GroupsOf(w) = {}

\* C11 witness: with the selectors at 'All' and a date set, a worker whose
\* sessions all start on another day has no group while another worker has.
C11_Witness ==
  /\ ~loading
  /\ filterDate # 0
  /\ selectedStage = "All"
  /\ selectedWorker = "All"
  /\ SessionsBeforeFilter("Asha") # <<>>
  /\ GroupsOf("Asha") = {}
  /\ GroupsOf("Ben") # {}

\* C11 witness for the selectors: a worker with sessions on the filter day is
\* omitted because the stage select names another worker's department.
C11_WitnessStage ==
  /\ ~loading
  /\ selectedStage = "Casting"
  /\ SessionsInWindow("Ben") # <<>>
  /\ GroupsOf("Ben") = {}
  /\ GroupsOf("Asha") # {}
----------------------------------------------------------------------------
(* C12 *)

\* The fetched events whose timestamp cannot be parsed.
UnparsableEvents == {l \in Range(dailyLogs) : l.timestamp = NaN}

\* The session shows the event: as its start (id) or as its end (end photo).
BuiltFrom(x, l) == x.id = l.id \/ x.endPhoto = l.photoUrl

\* C12: when some StartWork or CompleteWork event has an unparsable
\* timestamp, under every filter setting (the cleared date filter included)
\* the table renders without raising an error and no session of the output is
\* built from an event with an unparsable timestamp.
C12_MalformedTimestamps ==
  ~loading =>
    /\ ~RenderRaises(groupedSessions)
    /\ \A x \in AllShownSessions : \A l \in UnparsableEvents : ~BuiltFrom(x, l)

\* The part of C12 about rendering alone.
C12_RenderCompletes == ~loading => ~RenderRaises(groupedSessions)

\* The part of C12 with a date set: no session starts at an unparsable time.
C12_DateFilterDropsUnparsableStart ==
  ~loading /\ filterDate # 0 =>
    \A x \in AllShownSessions : x.startTime # NaN
----------------------------------------------------------------------------
(* C13 *)

----------------------------------------------------------------------------
(* C17 *)

\* The event without the id and the photo that EventList gave it.
TemplateOf(l) ==
  [workerName |-> l.workerName, type |-> l.type, timestamp |-> l.timestamp,
   relatedLogId |-> l.relatedLogId]

\* dailyLogs is a response of the endpoint as it was returned: the event at
\* position i is the one that was returned at position i.
AsFetched ==
  /\ \A i \in 1..Len(dailyLogs) : TemplateOf(dailyLogs[i]) \in EventTemplates
  /\ dailyLogs = EventList([i \in 1..Len(dailyLogs) |-> TemplateOf(dailyLogs[i])])

----------------------------------------------------------------------------
(* C14 *)

\* C14: when one of the three requests of fetchData fails, the view leaves
\* the loading state and shows an empty result: once fetchData has settled,
\* after which nothing of the view runs unless the user acts, loading is
\* false, and after a failure no group is shown.
C14_FetchFailureEndsLoading ==
  /\ fetchData # "pending" => ~loading
  /\ fetchData = "rejected" => groupedSessions = <<>>

\* The part of C14 that getDailyLogs' fallback gives: when fetchData went
\* through, loading has ended.
C14_FulfilledEndsLoading == fetchData = "fulfilled" => ~loading
----------------------------------------------------------------------------
(* C15 *)

\* C15: 'Abandoned' arises only by supersession in the legacy pass: every
\* 'Abandoned' session has a start only (end time and end photo null); its
\* start is a StartWork that no explicit link consumed; and the timeline of
\* the legacy pass has a later StartWork of the same worker with no
\* CompleteWork between the two.
C15_AbandonedOnlyBySupersession ==
  ~loading =>
    \A w \in WorkerNames :
      LET tl == TimelineOf(w)
          ws == SessionsBeforeFilter(w)
      IN  \A n \in 1..Len(ws) :
            ws[n].status = "Abandoned" =>
              /\ ws[n].endTime = Null
              /\ ws[n].endPhoto = Null
              /\ \E st \in StartsOf(w) :
                   /\ OpenSessionOf(ws[n], st, "Abandoned")
                   /\ \A c \in CompletesOf(w) : ~LinksTo(c, st)
              /\ \E i \in 1..Len(tl) : \E j \in (i + 1)..Len(tl) :
                   /\ IsStartWork(tl[i])
                   /\ tl[i].id = ws[n].id
                   /\ IsStartWork(tl[j])
                   /\ tl[j].timestamp >= tl[i].timestamp
                   /\ \A k \in (i + 1)..(j - 1) : ~IsCompleteWork(tl[k])

\* C15 witness: an 'Abandoned' session is shown for a worker who also has a
\* 'Completed' one: the start was superseded, the next start was completed.
C15_Witness ==
  /\ ~loading
  /\ \E x \in ShownSessions("Asha") : x.status = "Abandoned"
  /\ \E x \in ShownSessions("Asha") : x.status = "Completed"
----------------------------------------------------------------------------
(* C19 *)

\* The number of sessions, before the date filter, in which a work event of
\* the worker appears: a start as the session's start (the session's id is
\* the start's), a complete as the session's end (its photo is the end photo)
\* or, for an orphan, as the session itself.
AppearancesOf(l, w) ==
  LET ws == SessionsBeforeFilter(w)
  IN  IF IsStartWork(l)
      THEN Cardinality({n \in 1..Len(ws) : ws[n].id = l.id})
      ELSE Cardinality({n \in 1..Len(ws) : ws[n].endPhoto = l.photoUrl})

\* C19: no double counting: before the date filter, every StartWork and
\* CompleteWork event of a worker appears in exactly one reconstructed
\* session, also when two completes carry the id of the same start.
C19_NoDoubleCounting ==
  ~loading =>
    \A w \in WorkerNames : \A l \in StartsOf(w) \cup CompletesOf(w) :
      AppearancesOf(l, w) = 1

\* The part of C19 about the completes alone.
C19_CompletesCountedOnce ==
  ~loading =>
    \A w \in WorkerNames : \A l \in CompletesOf(w) : AppearancesOf(l, w) = 1

\* The part of C19 about the starts that have at most one link to them.
C19_StartsCountedOnceUnlessLinkedTwice ==
  ~loading =>
    \A w \in WorkerNames : \A l \in StartsOf(w) :
      Cardinality({c \in CompletesOf(w) : LinksTo(c, l)}) <= 1 =>
        AppearancesOf(l, w) = 1
----------------------------------------------------------------------------
(* C20 *)

\* A complete whose relatedLogId names no StartWork of its worker.
IsDangling(c) ==
  /\ IsCompleteWork(c)
  /\ c.relatedLogId # 0
  /\ \A st \in StartsOf(c.workerName) : ~LinksTo(c, st)

\* The fetched list with the relatedLogId of the events in drop removed.
WithoutLinks(drop) ==
  [i \in 1..Len(dailyLogs) |->
     IF dailyLogs[i] \in drop
     THEN [dailyLogs[i] EXCEPT !.relatedLogId = 0]
     ELSE dailyLogs[i]]

\* C20: a complete whose relatedLogId matches no StartWork of the same worker
\* goes to the legacy pass (it is in its timeline), and the output is the one
\* of the same list with that link removed; so is it with all the dangling
\* links removed.
C20_DanglingLinkFallback ==
  ~loading =>
    LET dangling == {c \in Range(dailyLogs) : IsDangling(c)}
    IN  /\ \A c \in dangling :
             /\ c \in Range(TimelineOf(c.workerName))
             /\ groupedSessions =
                  GroupedSessions(filterDate, WithoutLinks({c}), users, departments,
                                  selectedStage, selectedWorker, tz)
        /\ groupedSessions =
             GroupedSessions(filterDate, WithoutLinks(dangling), users, departments,
                             selectedStage, selectedWorker, tz)

\* C20 witness: a complete whose relatedLogId is the id of another worker's
\* event closes the open start of its worker, and the pair is shown.
C20_Witness ==
  /\ ~loading
  /\ \E c \in CompletesOf("Asha") : \E st \in StartsOf("Asha") :
       /\ IsDangling(c)
       /\ \E l \in Range(dailyLogs) : l.id = c.relatedLogId /\ l.workerName = "Ben"
       /\ \E x \in ShownSessions("Asha") : PairSession(x, st, c)
----------------------------------------------------------------------------
(* C16 *)

\* The step is a call of addDailyLog.
IsAddDailyLog == \E c \in Clients : AddDailyLog(c)

\* C16: the daily-log store is append-only from the client: whatever
\* dataService call takes a step, the events already stored stay as they
\* are, in place and content; addDailyLog adds one new event at the end and
\* no other call adds any.
C16_EventStoreAppendOnly ==
  [][/\ Len(db'.dailyLogs) >= Len(db.dailyLogs)
     /\ SubSeq(db'.dailyLogs, 1, Len(db.dailyLogs)) = db.dailyLogs
     /\ IF IsAddDailyLog
        THEN Len(db'.dailyLogs) = Len(db.dailyLogs) + 1
        ELSE db'.dailyLogs = db.dailyLogs]_vars

\* C16 witness: two events of the same id are stored, beside a job that was
\* created and advanced, a user and a department.
C16_Witness ==
  /\ Len(db.dailyLogs) = MaxDailyLogs
  /\ db.dailyLogs[1].id = db.dailyLogs[2].id
  /\ \E i \in 1..Len(db.jobs) : db.jobs[i].currentStage = STAGES[2]
  /\ db.users # {}
  /\ db.departments # {}
----------------------------------------------------------------------------
(* C18 *)

\* The position in STAGES of a stage, 0 when it is not in STAGES.
StagePosition(stage) == FirstIndex({k \in 1..Len(STAGES) : STAGES[k] = stage})

\* The stage the call read for the job it updates: the stageName of the
\* history entry it appended.
StageRead(updatedJob) == updatedJob.history[Len(updatedJob.history)].stageName

\* getJobs has answered the advanceJob call of context c.
AdvanceJobAnswered(c) ==
  calls[c].op = "advanceJob:getJobs" /\ calls'[c] # calls[c]

\* The update of the advanceJob call of context c has reached the backend.
AdvanceJobSent(c) ==
  calls[c].op = "advanceJob:put" /\ calls'[c] # calls[c]

\* C18: advanceJob moves a job one step at a time along STAGES. A call on a
\* job id that does not exist, or on a job at the last stage, sends no update
\* and changes nothing. Any other call sends one update, of that job, whose
\* currentStage is the stage right after the one the call read; when it
\* reaches the backend the job has that stage and the other jobs are as they
\* were, and if the job still had the stage the call read (as it has when the
\* calls follow one another), it has moved exactly one position forward.
\* Nothing but such an update changes the stage of a stored job.
C18_AdvanceOneStep ==
  [][/\ \A c \in Clients :
          AdvanceJobAnswered(c) =>
            LET ji == findJob(db.jobs, calls[c].jobId)
            IN  IF ji = 0 \/ db.jobs[ji].currentStage = STAGES[Len(STAGES)]
                THEN calls'[c] = Idle /\ db' = db
                ELSE /\ calls'[c].op = "advanceJob:put"
                     /\ calls'[c].job.id = calls[c].jobId
                     /\ StageRead(calls'[c].job) = db.jobs[ji].currentStage
                     /\ StagePosition(calls'[c].job.currentStage)
                          = StagePosition(db.jobs[ji].currentStage) + 1
                     /\ db' = db
     /\ \A c \in Clients :
          AdvanceJobSent(c) =>
            /\ Len(db'.jobs) = Len(db.jobs)
            /\ \A i \in 1..Len(db.jobs) :
                 IF db.jobs[i].id = calls[c].jobId
                 THEN /\ db'.jobs[i].currentStage = calls[c].job.currentStage
                      /\ db.jobs[i].currentStage = StageRead(calls[c].job) =>
                           StagePosition(db'.jobs[i].currentStage)
                             = StagePosition(db.jobs[i].currentStage) + 1
                 ELSE db'.jobs[i] = db.jobs[i]
     /\ (\A c \in Clients : ~AdvanceJobSent(c)) =>
          /\ Len(db'.jobs) >= Len(db.jobs)
          /\ SubSeq(db'.jobs, 1, Len(db.jobs)) = db.jobs]_vars

\* C18 witness: advanceJob is called on a job that two earlier calls brought
\* to the last stage, while another call names a job id that does not exist.
C18_Witness ==
  \E c \in Clients : \E c2 \in Clients :
    /\ calls[c].op = "advanceJob:getJobs"
    /\ \E i \in 1..Len(db.jobs) :
         /\ db.jobs[i].id = calls[c].jobId
         /\ db.jobs[i].currentStage = STAGES[Len(STAGES)]
         /\ Len(db.jobs[i].history) = Len(STAGES) - 1
    /\ calls[c2].op = "advanceJob:getJobs"
    /\ findJob(db.jobs, calls[c2].jobId) = 0
----------------------------------------------------------------------------
(* C21 *)

\* No two work events of one worker in the fetched list share a timestamp.
DistinctWorkTimes ==
  \A w \in WorkerNames : \A a, b \in StartsOf(w) \cup CompletesOf(w) :
    a # b => a.timestamp # b.timestamp

\* C21: order independence: for every permutation of the fetched events the
\* reconstruction yields the same set of sessions (pairing, status, duration),
\* also when several events of one worker share a timestamp.
C21_OrderIndependence == ~loading => ShownIndependentOfOrder

\* The part of C21 without equal timestamps: when the work events of each
\* worker have distinct timestamps, the sessions are the same for every
\* permutation of the list.
C21_OrderIndependenceDistinctTimes ==
  (~loading /\ DistinctWorkTimes) => ShownIndependentOfOrder
----------------------------------------------------------------------------
(* C22 *)

\* The output with both selectors at 'All', under the date filter in force.
UnfilteredGroups ==
  GroupedSessions(filterDate, dailyLogs, users, departments, "All", "All", tz)

\* The group matches the two selectors.
MatchesSelectors(g) ==
  /\ selectedStage = "All" \/ g.workerStage = selectedStage
  /\ selectedWorker = "All" \/ g.workerName = selectedWorker

\* The departments the worker's user record resolves to.
DepartmentsOfWorker(w) ==
  {d \in Range(departments) :
     \E u \in Range(users) : u.name = w /\ u.departmentId # 0 /\ u.departmentId = d.id}

\* C22: the stage and worker selectors only remove whole groups: the output
\* is the sequence of the groups of the 'All'/'All' output that match both
\* selectors, each with the sessions it has there; the stage of a group is
\* the name of its worker's department, 'Unknown' when the worker has no
\* department that resolves.
C22_SelectorsRemoveWholeGroups ==
  ~loading =>
    /\ groupedSessions = SelectSeq(UnfilteredGroups, MatchesSelectors)
    /\ \A i \in 1..Len(groupedSessions) :
         LET g == groupedSessions[i]
         IN  IF DepartmentsOfWorker(g.workerName) = {}
             THEN g.workerStage = "Unknown"
             ELSE \E d \in DepartmentsOfWorker(g.workerName) : g.workerStage = d.name

\* C22 witness: a stage is selected; the worker of that department is shown
\* with its sessions, and a worker of stage 'Unknown' who has sessions on the
\* filter day is left out.
C22_Witness ==
  /\ ~loading
  /\ selectedStage # "All"
  /\ selectedWorker = "All"
  /\ Len(groupedSessions) = 1
  /\ Len(UnfilteredGroups) = 2
  /\ \E i \in 1..Len(UnfilteredGroups) : UnfilteredGroups[i].workerStage = "Unknown"
----------------------------------------------------------------------------
(* C23 *)

\* The output with the date filter cleared, under the selectors in force.
ClearedGroups ==
  GroupedSessions(0, dailyLogs, users, departments, selectedStage, selectedWorker, tz)

\* The sessions of a worker in the output with the date filter cleared.
ClearedSessions(w) ==
  UNION {Range(ClearedGroups[i].sessions) :
           i \in {j \in 1..Len(ClearedGroups) : ClearedGroups[j].workerName = w}}

\* C23: the date filter is applied after pairing: under a date D the
\* sessions output are exactly the sessions of the output with the date
\* filter cleared whose startTime falls on the calendar day D, unchanged in
\* status, end and duration; with the date filter cleared every
\* reconstructed session is output.
C23_DateFilterAfterPairing ==
  ~loading =>
    \A w \in WorkerNames :
      /\ filterDate # 0 =>
           ShownSessions(w)
             = {x \in ClearedSessions(w) : LocalDay(x.startTime, tz) = filterDate}
      /\ (filterDate = 0 /\ PassesSelectors(w)) =>
           ShownSessions(w) = Range(SessionsBeforeFilter(w))

\* The part of C23 about the order of pairing and filtering: the sessions
\* output under a date are sessions of the output with the date filter
\* cleared, unchanged, chosen by their startTime alone (the test being the
\* code's isSameDay against new Date(filterDate)).
C23_FilterChoosesAmongPairedSessions ==
  ~loading =>
    \A w \in WorkerNames :
      /\ filterDate # 0 =>
           ShownSessions(w)
             = {x \in ClearedSessions(w) :
                  isSameDay(x.startTime, ParseDateOnly(filterDate), tz)}
      /\ (filterDate = 0 /\ PassesSelectors(w)) =>
           ShownSessions(w) = Range(SessionsBeforeFilter(w))

----------------------------------------------------------------------------
(* The four getters of dataService, each called on its own under every     *)
(* outcome of its request.                                                 *)

\* getJobs' map: history is the stored history, [] when the stored job has
\* none.
withHistory(j) ==
  [id |-> j.id, currentStage |-> j.currentStage,
   history |-> IF "history" \in DOMAIN j THEN j.history ELSE <<>>]

\* getJobs: throws on a non-OK response, else the body's jobs each with a
\* history array.
getJobs(resp, body) ==
  IF resp = "ok"
  THEN Fulfilled([i \in 1..Len(body) |-> withHistory(body[i])])
  ELSE Rejected

\* The job documents a response can carry: one with a history, one without.
JobDocs ==
  { [id |-> 1001, currentStage |-> STAGES[1]],
    [id |-> 1002, currentStage |-> STAGES[2], history |-> <<[stageName |-> STAGES[1]]>>] }

\* The bodies res.json() can give for the jobs.
JobBodies(resp) ==
  IF resp = "ok"
  THEN UNION {[1..n -> JobDocs] : n \in 0..MaxJobs}
  ELSE {<<>>}

\* One call of a getter, recorded with its request's outcome and its result.
CallGetter(getter, resp, result) ==
  /\ settled' = [getter |-> getter, response |-> resp, result |-> result]
  /\ UNCHANGED <<viewVars, storeVars, feed, alerted, sessionVars>>

CallGetDailyLogs ==
  \E resp \in Responses : \E body \in DailyLogBodies(resp) :
    CallGetter("getDailyLogs", resp, getDailyLogs(resp, body))

CallGetUsers ==
  \E resp \in Responses :
    CallGetter("getUsers", resp, getUsers(resp, FetchedUsers))

CallGetDepartments ==
  \E resp \in Responses :
    CallGetter("getDepartments", resp, getDepartments(resp, FetchedDepartments))

CallGetJobs ==
  \E resp \in Responses : \E body \in JobBodies(resp) :
    CallGetter("getJobs", resp, getJobs(resp, body))

GettersNext ==
  \/ CallGetDailyLogs
  \/ CallGetUsers
  \/ CallGetDepartments
  \/ CallGetJobs

GettersSpec == StoreInit /\ [][GettersNext]_vars

\* C24: getDailyLogs never fails: whenever its request does not succeed
\* (a non-OK response or no response at all) it resolves to the empty list,
\* while getUsers, getDepartments and getJobs reject on a non-OK response.
C24_GetDailyLogsNeverFails ==
  /\ (settled.getter = "getDailyLogs" /\ settled.response # "ok") =>
       settled.result = Fulfilled(<<>>)
  /\ (settled.getter \in {"getUsers", "getDepartments", "getJobs"}
        /\ settled.response = "notOk") =>
       settled.result.state = "rejected"

\* The part of C24 the getters keep: the fallback covers a response with a
\* non-OK status, and the other three getters reject on one.
C24_FallbackOnNonOkResponse ==
  /\ (settled.getter = "getDailyLogs" /\ settled.response = "notOk") =>
       settled.result = Fulfilled(<<>>)
  /\ (settled.getter \in {"getUsers", "getDepartments", "getJobs"}
        /\ settled.response = "notOk") =>
       settled.result.state = "rejected"

----------------------------------------------------------------------------
(* DailyPhotoFeed: the mount effect's fetchData.                           *)

\* The largest daily-log response the feed is given.
MaxFeedLogs == 1

\* The bodies res.json() can give the feed for the daily logs.
FeedLogBodies(resp) ==
  IF resp = "ok"
  THEN {EventList(f) : f \in UNION {[1..n -> EventTemplates] : n \in 0..MaxFeedLogs}}
  ELSE {<<>>}

\* One of the three calls settles, under any outcome of its request.
FeedSettle(g) ==
  /\ feed.results[g].state = "pending"
  /\ \E resp \in Responses :
       \E r \in CASE g = "getDailyLogs" ->
                       {getDailyLogs(resp, b) : b \in FeedLogBodies(resp)}
                  [] g = "getJobs" ->
                       {getJobs(resp, b) : b \in JobBodies(resp)}
                  [] OTHER -> {getUsers(resp, FetchedUsers)} :
         feed' = [feed EXCEPT !.results[g] = r]
  /\ UNCHANGED <<viewVars, storeVars, settled, alerted, sessionVars>>

\* try { setAll...(await Promise.all) } catch { console.error } finally
\* { setLoading(false) }, with the loading flag cleared inside try only.
feedAfterAwait_NoFinally(f, all) ==
  IF all.state = "fulfilled"
  THEN [f EXCEPT !.allDailyLogs = all.value[1], !.allJobs = all.value[2],
                 !.allUsers = all.value[3], !.loading = FALSE,
                 !.fetchData = "fulfilled"]
  ELSE [f EXCEPT !.fetchData = "rejected"]

\* try { setAll...(await Promise.all) } catch { console.error } finally
\* { setLoading(false) }.
feedAfterAwait(f, all) ==
  IF all.state = "fulfilled"
  THEN [f EXCEPT !.allDailyLogs = all.value[1], !.allJobs = all.value[2],
                 !.allUsers = all.value[3], !.loading = FALSE,
                 !.fetchData = "fulfilled"]
  ELSE [f EXCEPT !.loading = FALSE, !.fetchData = "rejected"]

\* The await of Promise.all resumes fetchData: once one call has rejected,
\* or once the three have fulfilled.
FeedAwait ==
  /\ feed.fetchData = "pending"
  /\ \/ \E g \in FeedGetters : feed.results[g].state = "rejected"
     \/ \A g \in FeedGetters : feed.results[g].state = "fulfilled"
  /\ feed' = feedAfterAwait(feed, PromiseAll(feed.results["getDailyLogs"],
                                             feed.results["getJobs"],
                                             feed.results["getUsers"]))
  /\ UNCHANGED <<viewVars, storeVars, settled, alerted, sessionVars>>

FeedNext ==
  \/ \E g \in FeedGetters : FeedSettle(g)
  \/ FeedAwait

FeedSpec == StoreInit /\ [][FeedNext]_vars

\* Every request settles (fetch resolves or rejects) and the event loop runs
\* the continuation of a settled await.
FeedFairSpec ==
  /\ FeedSpec
  /\ \A g \in FeedGetters : WF_vars(FeedSettle(g))
  /\ WF_vars(FeedAwait)

\* C29: in DailyPhotoFeed loading always ends: whether the three fetches
\* succeed or any of them fails, loading is eventually false and stays so;
\* after a failure the data lists are still empty, whatever the other calls
\* of the batch returned, and after a success they hold the three results.
C29_LoadingAlwaysEnds ==
  /\ <>[](~feed.loading)
  /\ [](feed.fetchData = "rejected" =>
          /\ feed.allDailyLogs = <<>>
          /\ feed.allJobs = <<>>
          /\ feed.allUsers = <<>>)
  /\ [](feed.fetchData = "fulfilled" =>
          /\ feed.allDailyLogs = feed.results["getDailyLogs"].value
          /\ feed.allJobs = feed.results["getJobs"].value
          /\ feed.allUsers = feed.results["getUsers"].value)

\* A batch that failed with loading over, one of its calls having returned
\* jobs that were not stored.
C29_Witness ==
  /\ feed.fetchData = "rejected"
  /\ ~feed.loading
  /\ feed.results["getUsers"].state = "rejected"
  /\ feed.results["getJobs"].state = "fulfilled"
  /\ feed.results["getJobs"].value # <<>>

----------------------------------------------------------------------------
(* C25 *)

\* The update of context c's advanceJob call records an advance of the stored
\* job i: one position forward, one history entry more, naming the stage
\* left, after the entries the job had.
AdvanceRecorded(c, i) ==
  /\ StagePosition(db'.jobs[i].currentStage)
       = StagePosition(db.jobs[i].currentStage) + 1
  /\ Len(db'.jobs[i].history) = Len(db.jobs[i].history) + 1
  /\ SubSeq(db'.jobs[i].history, 1, Len(db.jobs[i].history)) = db.jobs[i].history
  /\ db'.jobs[i].history[Len(db'.jobs[i].history)].stageName
       = db.jobs[i].currentStage

\* The stored job i is still as the advanceJob call of context c read it.
StoredAsRead(c, i) ==
  /\ db.jobs[i].currentStage = StageRead(calls[c].job)
  /\ db.jobs[i].history
       = SubSeq(calls[c].job.history, 1, Len(calls[c].job.history) - 1)

\* C25: every advanceJob call that completes on a job not at the last stage
\* is recorded: when its update reaches the backend the job's stage index
\* rises by one and exactly one history entry is appended, the earlier
\* entries kept, also when two workers advance the same job concurrently.
C25_EveryAdvanceRecorded ==
  [][\A c \in Clients :
       AdvanceJobSent(c) =>
         \A i \in 1..Len(db.jobs) :
           db.jobs[i].id = calls[c].jobId => AdvanceRecorded(c, i)]_vars

\* The part of C25 that holds: an update is recorded whenever the stored job
\* is still as the call read it.
C25_RecordedUnlessOverlapped ==
  [][\A c \in Clients :
       AdvanceJobSent(c) =>
         \A i \in 1..Len(db.jobs) :
           (db.jobs[i].id = calls[c].jobId /\ StoredAsRead(c, i)) =>
             AdvanceRecorded(c, i)]_vars

----------------------------------------------------------------------------
(* C26 *)

\* The POST of context c's createJob call has reached the backend.
CreateJobSent(c) ==
  calls[c].op = "createJob:post" /\ calls'[c] # calls[c]

\* The job a createJob call has just stored.
CreatedJob == db'.jobs[Len(db'.jobs)]

\* C26: job ids are unique: over any interleaving of createJob calls no two
\* created jobs receive the same id, and a new job starts at the first stage
\* with an empty history.
C26_JobIdsUnique ==
  [][\A c \in Clients :
       CreateJobSent(c) =>
         /\ Len(db'.jobs) = Len(db.jobs) + 1
         /\ CreatedJob.currentStage = STAGES[1]
         /\ CreatedJob.history = <<>>
         /\ \A i \in 1..Len(db.jobs) : db.jobs[i].id # CreatedJob.id]_vars

\* The part of C26 that holds: a created job is added at the first stage with
\* an empty history, under the id 1000 + count + 1 of the count its call read.
C26_CreatedAtFirstStage ==
  [][\A c \in Clients :
       CreateJobSent(c) =>
         /\ Len(db'.jobs) = Len(db.jobs) + 1
         /\ SubSeq(db'.jobs, 1, Len(db.jobs)) = db.jobs
         /\ CreatedJob.currentStage = STAGES[1]
         /\ CreatedJob.history = <<>>
         /\ CreatedJob.id = calls[c].jobId
         /\ CreatedJob.id \in {1000 + n + 1 : n \in 0..Len(db.jobs)}]_vars

----------------------------------------------------------------------------
(* C27 *)

\* C27: event ids are unique: over any interleaving of addDailyLog calls no
\* two stored daily-log events share an id, so that a lookup by id finds a
\* single event.
C27_EventIdsUnique ==
  \A i \in 1..Len(db.dailyLogs) : \A j \in 1..Len(db.dailyLogs) :
    i # j => db.dailyLogs[i].id # db.dailyLogs[j].id

\* What holds of the ids instead: the id of a stored event is the clock
\* reading of its call, and the ids follow the order of the calls.
C27_EventIdsFollowClock ==
  \A i \in 1..Len(db.dailyLogs) : \A j \in 1..Len(db.dailyLogs) :
    /\ db.dailyLogs[i].id <= now
    /\ i < j => db.dailyLogs[i].id <= db.dailyLogs[j].id

----------------------------------------------------------------------------
(* The admin views: UserManagement and DepartmentManagementModal.          *)

\* addUser, updateUser, removeUser, deleteDepartment: await fetch with no
\* look at the response, so the call rejects only when fetch does.
addUser(resp) == IF resp = "rejected" THEN Rejected ELSE Fulfilled(<<>>)
updateUser(resp) == IF resp = "rejected" THEN Rejected ELSE Fulfilled(<<>>)
removeUser(resp) == IF resp = "rejected" THEN Rejected ELSE Fulfilled(<<>>)
deleteDepartment(resp) == IF resp = "rejected" THEN Rejected ELSE Fulfilled(<<>>)

\* createDepartment: throws on a non-OK response.
createDepartment(resp) == IF resp = "ok" THEN Fulfilled(<<>>) ELSE Rejected

\* The backend applies a request it answers OK, and no other.
backendAfter(d, req, resp) == IF resp = "ok" THEN handle(d, req) ELSE d

\* The alerts of the two views.
SuccessAlerts == {"User added successfully!", "User updated successfully!"}
FailureAlerts ==
  {"Operation failed", "Delete failed", "Failed to delete", "Failed to add department"}

\* A handler has run to its end: the name it was given, the request's outcome
\* and the alert shown, "" when it showed none.
Alerted(handler, arg, resp, message) ==
  alerted' = [handler |-> handler, arg |-> arg, response |-> resp, message |-> message]

\* UserManagement.handleSaveUser with editingId unset: addUser, the success
\* alert after it, the failure alert in catch.
HandleSaveUserAdd ==
  \E user \in UserDocs : \E resp \in Responses :
    /\ db' = backendAfter(db, addUserRequest(user), resp)
    /\ Alerted("addUser", user.name, resp,
               IF addUser(resp).state = "fulfilled"
               THEN "User added successfully!" ELSE "Operation failed")
    /\ UNCHANGED <<viewVars, calls, now, settled, feed, sessionVars>>

\* UserManagement.handleSaveUser with editingId set: updateUser.
HandleSaveUserUpdate ==
  \E user \in UserDocs : \E resp \in Responses :
    /\ db' = backendAfter(db, updateUserRequest(user), resp)
    /\ Alerted("updateUser", user.name, resp,
               IF updateUser(resp).state = "fulfilled"
               THEN "User updated successfully!" ELSE "Operation failed")
    /\ UNCHANGED <<viewVars, calls, now, settled, feed, sessionVars>>

\* UserManagement.handleDeleteUser, confirmed: removeUser, an alert in catch
\* only.
HandleDeleteUser ==
  \E user \in UserDocs : \E resp \in Responses :
    /\ db' = backendAfter(db, removeUserRequest(user.id), resp)
    /\ Alerted("removeUser", user.name, resp,
               IF removeUser(resp).state = "fulfilled" THEN "" ELSE "Delete failed")
    /\ UNCHANGED <<viewVars, calls, now, settled, feed, sessionVars>>

\* DepartmentManagementModal.handleAdd: createDepartment, an alert in catch
\* only.
HandleAdd ==
  \E name \in DepartmentNames : \E resp \in Responses :
    /\ db' = backendAfter(db, createDepartmentRequest(name), resp)
    /\ Alerted("createDepartment", name, resp,
               IF createDepartment(resp).state = "fulfilled"
               THEN "" ELSE "Failed to add department")
    /\ UNCHANGED <<viewVars, calls, now, settled, feed, sessionVars>>

\* DepartmentManagementModal.handleDelete, confirmed: deleteDepartment, an
\* alert in catch only.
HandleDelete ==
  \E name \in DepartmentNames : \E resp \in Responses :
    /\ db' = backendAfter(db, deleteDepartmentRequest(DepartmentIdOf(name)), resp)
    /\ Alerted("deleteDepartment", name, resp,
               IF deleteDepartment(resp).state = "fulfilled"
               THEN "" ELSE "Failed to delete")
    /\ UNCHANGED <<viewVars, calls, now, settled, feed, sessionVars>>

AdminNext ==
  \/ HandleSaveUserAdd
  \/ HandleSaveUserUpdate
  \/ HandleDeleteUser
  \/ HandleAdd
  \/ HandleDelete

AdminSpec == StoreInit /\ [][AdminNext]_vars

\* The four mutations that C28 names.
UncheckedMutations == {"addUser", "updateUser", "removeUser", "deleteDepartment"}

\* C28: mutation failures are surfaced: for addUser, updateUser, removeUser
\* and deleteDepartment, whenever the backend answers with a non-OK status
\* the calling view shows its failure alert and never its success alert.
C28_MutationFailuresSurfaced ==
  (alerted.handler \in UncheckedMutations /\ alerted.response = "notOk") =>
    /\ alerted.message \in FailureAlerts
    /\ alerted.message \notin SuccessAlerts

\* What the views surface: a request that got no response, for the four
\* mutations, and any failure of createDepartment.
C28_RejectionsSurfaced ==
  /\ (alerted.handler \in UncheckedMutations /\ alerted.response = "rejected") =>
       alerted.message \in FailureAlerts
  /\ (alerted.handler = "createDepartment" /\ alerted.response # "ok") =>
       alerted.message \in FailureAlerts
  /\ alerted.response = "ok" => alerted.message \notin FailureAlerts

----------------------------------------------------------------------------
(* The stored login session: getSession, setSession, clearSession and      *)
(* hardReset over the browser's localStorage.                              *)

\* The longest sequence of session calls.
MaxSessionCalls == 4

\* The key APP_KEYS.SESSION of '../constants'.
SESSION == "APP_KEYS.SESSION"

\* A property holding undefined, and what reading a property gives: undefined
\* when the object has no such property.
Undefined == "undefined"
UserKeys == {"id", "name", "role", "assignedStage"}
Read(o, k) == IF k \in DOMAIN o THEN o[k] ELSE Undefined

\* The users that log in: a worker, and an admin whose assignedStage is
\* undefined.
SessionUsers ==
  { [id |-> "1", name |-> "Asha", role |-> "Worker", assignedStage |-> "Casting"],
    [id |-> "2", name |-> "Ben", role |-> "Admin", assignedStage |-> Undefined] }

\* JSON.stringify of an object: the text of its properties, those holding
\* undefined left out.
JSONstringify(o) ==
  [kind |-> "object",
   pairs |-> {<<k, o[k]>> : k \in {x \in DOMAIN o : o[x] # Undefined}}]

\* Strings that are not JSON texts: some other text, and the empty string.
NotJson == [kind |-> "invalid", pairs |-> {}]
EmptyString == [kind |-> "empty", pairs |-> {}]

\* JSON.parse: the object a JSON text describes; SyntaxError on another
\* string.
JSONparse(text) ==
  IF text.kind = "object"
  THEN [throws |-> FALSE,
        value |-> [k \in {p[1] : p \in text.pairs} |->
                     (CHOOSE p \in text.pairs : p[1] = k)[2]]]
  ELSE [throws |-> TRUE, value |-> EmptyStorage]

\* What a call gives back: a value, null, or an exception.
Returns(v) == [kind |-> "user", value |-> v]
ReturnsNull == [kind |-> "null", value |-> EmptyStorage]
Throws == [kind |-> "throws", value |-> EmptyStorage]

\* getSession with no try/catch around the parse.
getSession_NoCatch(ls) ==
  IF SESSION \notin DOMAIN ls THEN ReturnsNull
  ELSE IF ls[SESSION].kind = "empty" THEN ReturnsNull
  ELSE IF JSONparse(ls[SESSION]).throws THEN Throws
  ELSE Returns(JSONparse(ls[SESSION]).value)

\* getSession: stored ? JSON.parse(stored) : null, and null in catch.
\* getItem gives null for a missing key, and '' is falsy.
getSession(ls) ==
  IF SESSION \notin DOMAIN ls THEN ReturnsNull
  ELSE IF ls[SESSION].kind = "empty" THEN ReturnsNull
  ELSE IF JSONparse(ls[SESSION]).throws THEN ReturnsNull
  ELSE Returns(JSONparse(ls[SESSION]).value)

\* localStorage.setItem and localStorage.removeItem.
setItem(ls, key, text) ==
  [k \in DOMAIN ls \cup {key} |-> IF k = key THEN text ELSE ls[k]]
removeItem(ls, key) == [k \in DOMAIN ls \ {key} |-> ls[k]]

\* One call is added to the sequence of session calls.
Logged(op, user, returned) ==
  /\ Len(sessionLog) < MaxSessionCalls
  /\ sessionLog' = Append(sessionLog, [op |-> op, user |-> user, returned |-> returned])
  /\ UNCHANGED <<viewVars, storeVars, settled, feed, alerted>>

SetSession ==
  \E user \in SessionUsers :
    /\ localStorage' = setItem(localStorage, SESSION, JSONstringify(user))
    /\ Logged("setSession", user, ReturnsNull)

ClearSession ==
  /\ localStorage' = removeItem(localStorage, SESSION)
  /\ Logged("clearSession", EmptyStorage, ReturnsNull)

\* hardReset: localStorage.clear(), and the page reloads.
HardReset ==
  /\ localStorage' = EmptyStorage
  /\ Logged("hardReset", EmptyStorage, ReturnsNull)

GetSession ==
  /\ UNCHANGED localStorage
  /\ Logged("getSession", EmptyStorage, getSession(localStorage))

\* Something other than dataService stores a string that is not a JSON text
\* under the session key.
StoredElsewhere ==
  \E text \in {NotJson, EmptyString} :
    /\ localStorage' = setItem(localStorage, SESSION, text)
    /\ Logged("stored elsewhere", EmptyStorage, ReturnsNull)

SessionNext ==
  \/ SetSession
  \/ ClearSession
  \/ HardReset
  \/ GetSession
  \/ StoredElsewhere

SessionSpec == StoreInit /\ [][SessionNext]_vars

\* Two user objects with the same value under every key.
SameUser(a, b) == \A k \in UserKeys : Read(a, k) = Read(b, k)

\* The calls before the k-th that wrote or removed the stored session.
WritesBefore(k) == {j \in 1..(k - 1) : sessionLog[j].op # "getSession"}
LastWriteBefore(k) == CHOOSE j \in WritesBefore(k) : \A i \in WritesBefore(k) : i <= j

\* C30: over any sequence of setSession, clearSession, hardReset and
\* getSession calls, getSession returns the user most recently passed to
\* setSession since the last clearSession or hardReset, null when there is
\* none, and null rather than an exception when the stored value is not
\* valid JSON.
C30_GetSessionReturnsLastSet ==
  \A k \in 1..Len(sessionLog) :
    sessionLog[k].op = "getSession" =>
      IF WritesBefore(k) = {} THEN sessionLog[k].returned = ReturnsNull
      ELSE LET last == sessionLog[LastWriteBefore(k)]
           IN  IF last.op = "setSession"
               THEN /\ sessionLog[k].returned.kind = "user"
                    /\ SameUser(sessionLog[k].returned.value, last.user)
               ELSE sessionLog[k].returned = ReturnsNull

\* A user with an undefined property is stored and read back, then a string
\* that is not JSON is stored and getSession gives null.
C30_Witness ==
  /\ Len(sessionLog) = 4
  /\ sessionLog[1].op = "setSession"
  /\ sessionLog[1].user.assignedStage = Undefined
  /\ sessionLog[2].op = "getSession"
  /\ sessionLog[2].returned.kind = "user"
  /\ sessionLog[3].op = "stored elsewhere"
  /\ sessionLog[4].op = "getSession"
  /\ sessionLog[4].returned = ReturnsNull
  /\ SESSION \in DOMAIN localStorage
  /\ localStorage[SESSION] = NotJson
====
